---------------------------- MODULE Spec2Model ----------------------------
(***************************************************************************)
(* Mr.Logger: the ingestion pipeline and the background event loop.        *)
(*                                                                         *)
(* Producers push records into the hand-off queue (StdQueue); one worker   *)
(* thread runs Logger::eventLoop: it pops records, hands them to the       *)
(* WritePreparer (formatting, coalescing), wraps every returned buffer in  *)
(* a WriteTask coroutine that stages a write on the I/O ring, submits      *)
(* batches, resumes the coroutines of completed writes and reaps them.     *)
(* Producers may call Logger::flush(); the owner runs Logger::~Logger().   *)
(*                                                                         *)
(* A record is [seq, len]: seq is the sequence number the queue assigns    *)
(* under its mutex (the order in which pushes take effect), len the length *)
(* of its formatted line.  A buffer is the sequence of formatted lines it  *)
(* holds, each [seq, len, intact]; intact is FALSE when formatTo cut the   *)
(* line short.  The variable file is the output (rotated files followed by *)
(* the active file) as the sequence of lines in the order the kernel wrote *)
(* them.                                                                   *)
(***************************************************************************)
EXTENDS Naturals, Sequences, FiniteSets, Bags

(***************************************************************************)
(* Bounds of the model.                                                    *)
(***************************************************************************)
\* Number of pushes that may take effect in one run.
MaxRecords == 3

\* Number of pushes that may take effect in a run with two flush() callers.
MaxFlushRecords == 2

\* Number of pushes that may take effect in a run in which the logger is
\* destroyed.
MaxShutdownRecords == 2

\* The staging area of the WritePreparer, in the unit of RecordLens (the
\* event loop sets 16384 bytes; the model scales it down).
StagingSize == 8

\* Formatted lengths a record may have, in the same unit.
RecordLens == {2, 6}

\* max_log_size_bytes of the configurations: small enough for a rotation to
\* happen within MaxRecords records.
MaxLogSize == 6

\* The stand-alone queues: threads that push, threads that pop, the number
\* of push and shutdown calls, the capacities of the bounded queue.
Pushers == {"p1", "p2"}
Poppers == {"c1", "c2"}
MaxPushCalls == 4
MaxShutdownCalls == 2
QueueCapacities == {1, 2}

\* The stand-alone buffer pool: the buffer sizes of the three bands, the
\* pool sizes (128, 64 and 32 in the source, scaled down), the sizes asked
\* for, the fill levels of released buffers, the buffers held at a time.
SMALL_BUFFER_SIZE == 1024
MEDIUM_BUFFER_SIZE == 4096
LARGE_BUFFER_SIZE == 16384
SMALL_POOL_SIZE == 2
MEDIUM_POOL_SIZE == 1
LARGE_POOL_SIZE == 1
RequiredSizes == {512, 2048, 16384, 32768}
UsedSizes == {0, 1}
\* Threads of the pool's concurrent tests; each holds one buffer at a time.
Holders == {"h1", "h2", "h3"}
MaxHeld == Cardinality(Holders)

\* The file rotaters: instances per process, files in the directory, the
\* size counter, the paths instances are constructed with ("t.l" and "n"),
\* the threshold, the bytes reported per write, what files contain, and the
\* paths tests create files at: those of the instances and rotated names.
MaxRotaters == 2
MaxFiles == 2
MaxCurrentSize == 2
Filenames == { << "t", ".", "l" >>, << "n" >> }
MaxSizes == {2}
BytesWritten == {1}
FileContents == {"old", "new"}
CreatedPaths ==
  Filenames \cup { << "t", "1", ".", "l" >>, << "t", "2", ".", "l" >>,
                   << "n", "1" >>, << "n", "2" >> }

\* The configs given to Logger::init: the three tuning fields, unset (0), at
\* the boundaries of the warnings, and where 16 x batch_size leaves the
\* 16-bit field; the rotation threshold; the queue; and every other field
\* either unset or set.
OtherFieldsUnset ==
  [ internal_error_handler |-> "nullptr", log_file_name |-> "",
    small_buffer_pool_size |-> 0, medium_buffer_pool_size |-> 0,
    large_buffer_pool_size |-> 0, small_buffer_size |-> 0,
    medium_buffer_size |-> 0, large_buffer_size |-> 0,
    shutdown_timeout_seconds |-> 0 ]
OtherFieldsSet ==
  [ internal_error_handler |-> "logger_errors_.push_back", log_file_name |-> "test.log",
    small_buffer_pool_size |-> 4, medium_buffer_pool_size |-> 2,
    large_buffer_pool_size |-> 1, small_buffer_size |-> 64,
    medium_buffer_size |-> 128, large_buffer_size |-> 256,
    shutdown_timeout_seconds |-> 1 ]
UserConfig(o, m, b, q, qu, c) ==
  [ internal_error_handler |-> o.internal_error_handler,
    log_file_name |-> o.log_file_name,
    max_log_size_bytes |-> m,
    batch_size |-> b,
    queue_depth |-> q,
    small_buffer_pool_size |-> o.small_buffer_pool_size,
    medium_buffer_pool_size |-> o.medium_buffer_pool_size,
    large_buffer_pool_size |-> o.large_buffer_pool_size,
    small_buffer_size |-> o.small_buffer_size,
    medium_buffer_size |-> o.medium_buffer_size,
    large_buffer_size |-> o.large_buffer_size,
    shutdown_timeout_seconds |-> o.shutdown_timeout_seconds,
    _queue |-> qu,
    coalesce_size |-> c ]
UserConfigs ==
  { UserConfig(OtherFieldsSet, 6, b, q, qu, c) :
      b \in {0, 1, 16, 32, 4096, 4097},
      q \in {0, 32, 64, 256, 512},
      qu \in {"nullptr", "own"},
      c \in {0, 8, 16, 64, 65} }
  \cup
  { UserConfig(o, m, b, 0, qu, 0) :
      o \in {OtherFieldsUnset, OtherFieldsSet},
      m \in {0, 6},
      b \in {0, 32},
      qu \in {"nullptr", "own"} }
MaxWrites == 2

\* Threads that call flush().
FlushCallers == {"f1", "f2"}

\* Merged configurations the logger is constructed with (each passes the
\* constructor's validation batch_size <= queue_depth).
Configs ==
  { [batch_size |-> 2, queue_depth |-> 4, coalesce_size |-> 2,
      max_log_size_bytes |-> MaxLogSize],
    [batch_size |-> 2, queue_depth |-> 4, coalesce_size |-> 1,
      max_log_size_bytes |-> MaxLogSize],
    [batch_size |-> 4, queue_depth |-> 8, coalesce_size |-> 4,
      max_log_size_bytes |-> MaxLogSize],
    [batch_size |-> 1, queue_depth |-> 2, coalesce_size |-> 1,
      max_log_size_bytes |-> MaxLogSize] }

\* The smallest merged configurations that pass the validation: for
\* queue_depth = 1 max_logs_per_iteration_ is min(1 / 2, ...) = 0.
IterationConfigs ==
  { [batch_size |-> 1, queue_depth |-> q, coalesce_size |-> 1,
      max_log_size_bytes |-> MaxLogSize] : q \in {1, 2} }

VARIABLES
  config_,                  \* Logger::config_ (merged)
  queue_,                   \* StdQueue::queue_
  stop_,                    \* StdQueue::stop_
  global_sequence_counter,  \* pushes that took effect so far
  stop_requested,           \* the worker's stop token
  worker_pc,                \* position of the worker thread
  request,                  \* the record the inner loop has popped
  dropped,                  \* eventLoop: local counter of the drain loop
  processed_this_iteration, \* eventLoop: local
  pending_writes,           \* eventLoop: local
  active_tasks,             \* eventLoop: std::list<WriteTask>
  active_task_count_,       \* Logger::active_task_count_ (atomic)
  staging,                  \* WritePreparer: lines in the staging buffer
  operational,              \* the ring's operational flag
  file,                     \* lines written by the kernel, in order
  submitted,                \* history: seqs handed to the kernel by submit
  late_calls,               \* history: ring calls made on a failed ring
  io_failed,                \* history: a write completed with a negative result
  drop_reports,             \* history: counts given in "Dropped N" reports
  skip_reports,             \* history: number of "Skipping request" reports
  flush_pc,                 \* position of every flush() caller
  flush_seen,               \* history: pushes in effect when flush() began
  dtor_pc,                  \* position of the thread running ~Logger
  timed_out,                \* ~Logger: wait_for returned timeout (reported)
  current_size_,            \* FileRotater::current_size_
  write_errors,             \* history: number of "io_uring write failed" reports
  rotations,                \* rotate() + reopen() calls made so far: the
                            \* number of the file that file_ has open
  active_file,              \* lines in the file that file_ has open, each
                            \* with the file its write was created for
  popped_this_iteration,    \* history: records the inner loop has popped
                            \* since the iteration began
  acquired_buffers          \* history: buffers acquired from buffer_pool_
                            \* and not released to it

\* The two queue classes on their own, driven by pushing and popping threads.
VARIABLES
  q_kind,                   \* the ThreadSafeQueue implementation under test
  std_queue_,               \* StdQueue::queue_
  std_stop_,                \* StdQueue::stop_
  capacity_,                \* FixedSizeBlockingQueue::capacity_
  buffer_,                  \* FixedSizeBlockingQueue::buffer_
  head_,                    \* FixedSizeBlockingQueue::head_
  tail_,                    \* FixedSizeBlockingQueue::tail_
  count_,                   \* FixedSizeBlockingQueue::count_
  stopped_,                 \* FixedSizeBlockingQueue::stopped_
  push_pc,                  \* position of every thread that calls push
  pop_pc,                   \* position of every thread that calls pop/tryPop
  shut_pc,                  \* position of the thread that calls shutdown
  push_calls,               \* history: push calls begun
  pushes,                   \* history: pushes that inserted
  popped,                   \* history: the elements popped, in order
  shutdown_calls,           \* history: shutdown calls begun
  pops_after_stop,          \* history: elements pop() returned after a shutdown
  unblocked_pushes          \* history: pushes that inserted after having blocked

queueVars ==
  << q_kind, std_queue_, std_stop_, capacity_, buffer_, head_, tail_, count_,
     stopped_, push_pc, pop_pc, shut_pc, push_calls, pushes, popped,
     shutdown_calls, pops_after_stop, unblocked_pushes >>

\* The buffer pool on its own, used by threads that acquire and release.
VARIABLES
  small_pool_,              \* BufferPool::small_pool_
  medium_pool_,             \* BufferPool::medium_pool_
  large_pool_,              \* BufferPool::large_pool_
  held,                     \* capacities of the buffers the callers hold
  last_acquire,             \* history: when the latest call was an acquire, what
                            \* it returned and the size that buffer had when pooled
  heap_fallback             \* history: some acquire had to create its buffer

poolVars ==
  << small_pool_, medium_pool_, large_pool_, held, last_acquire, heap_fallback >>

\* The stand-alone file rotaters.
VARIABLES
  rotaters,                 \* the FileRotater instances, in construction order
  files,                    \* the directory: path -> content
  current_filename,         \* the function-local static of getCurrentFilename():
                            \* << >> until its first call, then << the path >>
  last_call                 \* history: the latest FileRotater call and what
                            \* the state was before it

fileVars == << rotaters, files, current_filename, last_call >>

\* Logger::Factory and the loggers it constructs.
VARIABLES
  instance_,                \* Logger::Factory::instance_
  default_queue_stop_,      \* stop_ of the queue of default_config_
  logger_errors_,           \* what the error handler received from the latest init
  last_op,                  \* history: the latest call and how it ended
  init_refused              \* history: an init has thrown invalid_argument

factoryVars ==
  << instance_, default_queue_stop_, logger_errors_, last_op, init_refused >>

componentVars == << queueVars, poolVars, fileVars, factoryVars >>

loggerVars ==
  << config_, queue_, stop_, global_sequence_counter,
     stop_requested, worker_pc, request, dropped, processed_this_iteration,
     pending_writes, active_tasks, active_task_count_, staging, operational,
     file, submitted, late_calls, io_failed, drop_reports, skip_reports,
     flush_pc, flush_seen, dtor_pc, timed_out, current_size_, write_errors,
     rotations, active_file, popped_this_iteration, acquired_buffers >>

vars == << loggerVars, componentVars >>

rotaterVars == << current_size_, write_errors, rotations, active_file >>
bufferVars == << popped_this_iteration, acquired_buffers >>
producerVars == << queue_, global_sequence_counter >>
flushVars == << flush_pc, flush_seen >>
dtorVars == << dtor_pc, timed_out >>
historyVars ==
  << submitted, late_calls, io_failed, drop_reports, skip_reports >>

(***************************************************************************)
(* Helpers on sequences.                                                   *)
(***************************************************************************)
RECURSIVE SumLen(_)
SumLen(s) == IF s = << >> THEN 0 ELSE Head(s).len + SumLen(Tail(s))

SeqsOf(lines) == { lines[i].seq : i \in 1..Len(lines) }

NoRequest == [seq |-> 0, len |-> 0]

(***************************************************************************)
(* Logger::Logger: max_logs_per_iteration_ (uint16_t arithmetic).          *)
(***************************************************************************)
ISqrt(n) == CHOOSE k \in 0..n : k * k <= n /\ (k + 1) * (k + 1) > n

Min(a, b) == IF a <= b THEN a ELSE b
Max(a, b) == IF a >= b THEN a ELSE b

\* min<uint16_t>(queue_depth / 2,
\*               max<uint16_t>(batch_size * 2, batch_size * sqrt(queue_depth / batch_size)))
\* batch_size * sqrt(queue_depth / batch_size) = sqrt(batch_size * queue_depth).
max_logs_per_iteration_ ==
  Min(config_.queue_depth \div 2,
      Max((config_.batch_size * 2) % 65536,
          ISqrt(config_.batch_size * config_.queue_depth) % 65536))

(***************************************************************************)
(* WritePreparer.                                                          *)
(***************************************************************************)
\* The staging buffer's fill level (WritePreparer::staging_offset_) and its
\* line count (WritePreparer::messages_in_staging_).
staging_offset_ == SumLen(staging)
messages_in_staging_ == Len(staging)

\* formatTo writes at most capacity - 1 bytes and returns the full length.
FormatIntact(len, capacity) == len + 1 <= capacity

\* prepareIndividualWrite: a buffer of capacity >= len(payload) + 256 holds
\* the whole line.  The result is never staged: should_flush_batch = FALSE.
prepareIndividualWrite(req) ==
  << [seq |-> req.seq, len |-> req.len, intact |-> TRUE] >>

\* prepareCoalescedWrite, as [buffer, should_flush_batch, staging, acquired];
\* the buffer << >> is the null buffer, acquired the number of
\* buffer_pool_.acquire calls made (one by flushStaged, one by
\* prepareIndividualWrite).  In the overflow branch the staged lines are
\* returned and the buffer of the current record is discarded.
prepareCoalescedWrite(req) ==
  LET formatted_size == req.len
      fits == formatted_size > 0
              /\ staging_offset_ + formatted_size <= StagingSize
      line == [seq |-> req.seq, len |-> req.len,
               intact |-> FormatIntact(req.len, StagingSize - staging_offset_)]
      staged == Append(staging, line)
      should_flush == Len(staged) >= config_.coalesce_size
                      \/ SumLen(staged) > (StagingSize * 9) \div 10
      individual == prepareIndividualWrite(req)
  IN  IF fits
      THEN IF should_flush /\ SumLen(staged) > 0
           THEN [buffer |-> staged, should_flush_batch |-> TRUE,
                 staging |-> << >>, acquired |-> 1]
           ELSE [buffer |-> << >>, should_flush_batch |-> FALSE,
                 staging |-> staged, acquired |-> 0]
      ELSE IF staging # << >>
           THEN [buffer |-> staging, should_flush_batch |-> TRUE,
                 staging |-> << >>, acquired |-> 2]
           ELSE [buffer |-> individual, should_flush_batch |-> FALSE,
                 staging |-> << >>, acquired |-> 1]

prepareWrite(req) ==
  IF config_.coalesce_size > 1
  THEN prepareCoalescedWrite(req)
  ELSE [buffer |-> prepareIndividualWrite(req), should_flush_batch |-> FALSE,
        staging |-> staging, acquired |-> 1]

(***************************************************************************)
(* The I/O ring.  A task of active_tasks is [buffer, st, res, created, fd]; *)
(* the ring's queues are the tasks in each state, in creation order:       *)
(*   "prepared"   an SQE is staged, the coroutine is suspended             *)
(*   "submitted"  the kernel owns the write                                *)
(*   "completed"  a CQE is ready, not yet consumed                         *)
(*   "done"       the coroutine was resumed and ran to its end             *)
(* res is the awaited result: "none" so far, "ok" (all bytes written) or   *)
(* "error" (a negative result code).  created is the number of the file   *)
(* that was open when the coroutine prepared its write, fd the number of   *)
(* the file the descriptor named when the kernel took the write over.      *)
(***************************************************************************)
TasksIn(tasks, st) == { i \in 1..Len(tasks) : tasks[i].st = st }

\* prepare_write: refuses when the ring is not operational or no SQE is free.
PrepareWriteOk(tasks) ==
  operational /\ Cardinality(TasksIn(tasks, "prepared")) < config_.queue_depth

\* Logger::createWriteTask up to its first suspension: the coroutine starts
\* eagerly and awaits the ring's write awaiter.  When prepare_write refuses,
\* the awaiter resumes the coroutine at once with a negative result.
createWriteTask(tasks, buffer, open) ==
  Append(tasks,
         IF PrepareWriteOk(tasks)
         THEN [buffer |-> buffer, st |-> "prepared", res |-> "none",
               created |-> open, fd |-> open]
         ELSE [buffer |-> buffer, st |-> "done", res |-> "error",
               created |-> open, fd |-> open])

\* submitPendingSQEs when it succeeds: every staged SQE goes to the kernel.
\* The kernel resolves the descriptor of each write to the file it names
\* then: the one open at the submit.
SubmitAll(tasks, open) ==
  [i \in 1..Len(tasks) |->
     IF tasks[i].st = "prepared"
     THEN [tasks[i] EXCEPT !.st = "submitted", !.fd = open]
     ELSE tasks[i]]

PreparedSeqs(tasks) ==
  UNION { SeqsOf(tasks[i].buffer) : i \in TasksIn(tasks, "prepared") }

\* The outcomes of one submitPendingSQEs call on `tasks`: it succeeds, or
\* the kernel refuses (a fatal ring error: the ring is marked failed and
\* nothing is submitted).  On a failed ring it refuses at once.
SubmitOutcomes(tasks, open) ==
  IF operational
  THEN { [ok |-> TRUE, tasks |-> SubmitAll(tasks, open)],
         [ok |-> FALSE, tasks |-> tasks] }
  ELSE { [ok |-> FALSE, tasks |-> tasks] }

LateCall(name) == IF operational THEN late_calls ELSE late_calls \cup {name}

(***************************************************************************)
(* FileRotater and the part of createWriteTask that uses it.               *)
(***************************************************************************)
shouldRotate(size) == size >= config_.max_log_size_bytes

\* rotate(): the file is renamed and current_size_ starts again at 0.
rotate(size) == 0

\* createWriteTask before the co_await: "Check if file rotation is needed".
RotateIfNeeded(size) == IF shouldRotate(size) THEN rotate(size) ELSE size

\* ... and file_.reopen(): the number of the file open afterwards, and its
\* lines (a file just opened at the path that was renamed away is empty).
ReopenIfNeeded(size) == IF shouldRotate(size) THEN rotations + 1 ELSE rotations
ReopenedLines(size) == IF shouldRotate(size) THEN << >> ELSE active_file

\* Mutation of WrittenTo: the descriptor is resolved when the write is
\* executed.
WrittenToOpenFile(task) == rotations

\* The file the kernel writes a submitted write to.
WrittenTo(task) == task.fd

\* The lines of a buffer, each with the file its write was created for.
LinesOf(task) ==
  [ i \in 1..Len(task.buffer) |->
      [ seq |-> task.buffer[i].seq, created |-> task.created ] ]

\* createWriteTask after the co_await, "Handle write result": a negative
\* result is reported, any other result is added to the rotater's size.
WriteFailedReports(task) == IF task.res = "error" THEN 1 ELSE 0

\* Mutation of updateCurrentSize: the size grows whatever the result was.
updateCurrentSizeAlways(task) == SumLen(task.buffer)

updateCurrentSize(task) == IF task.res = "error" THEN 0 ELSE SumLen(task.buffer)

\* What the coroutines resumed by one processCompletions add up to.
RECURSIVE ResumedBytes(_)
ResumedBytes(tasks) ==
  IF tasks = << >> THEN 0
  ELSE (IF Head(tasks).st = "completed" THEN updateCurrentSize(Head(tasks))
        ELSE 0) + ResumedBytes(Tail(tasks))

RECURSIVE ResumedReports(_)
ResumedReports(tasks) ==
  IF tasks = << >> THEN 0
  ELSE (IF Head(tasks).st = "completed" THEN WriteFailedReports(Head(tasks))
        ELSE 0) + ResumedReports(Tail(tasks))

(***************************************************************************)
(* Initial state: the logger is constructed, the worker is about to test   *)
(* the loop condition, nobody has logged.                                  *)
(***************************************************************************)
LoggerInit(configs) ==
  /\ config_ \in configs
  /\ queue_ = << >>
  /\ stop_ = FALSE
  /\ global_sequence_counter = 0
  /\ stop_requested = FALSE
  /\ worker_pc = "loop"
  /\ request = NoRequest
  /\ dropped = 0
  /\ processed_this_iteration = 0
  /\ pending_writes = 0
  /\ active_tasks = << >>
  /\ active_task_count_ = 0
  /\ staging = << >>
  /\ operational = TRUE
  /\ file = << >>
  /\ submitted = {}
  /\ late_calls = {}
  /\ io_failed = FALSE
  /\ drop_reports = << >>
  /\ skip_reports = 0
  /\ flush_pc = [c \in FlushCallers |-> "idle"]
  /\ flush_seen = [c \in FlushCallers |-> 0]
  /\ dtor_pc = "alive"
  /\ timed_out = FALSE
  /\ current_size_ = 0
  /\ write_errors = 0
  /\ rotations = 0
  /\ active_file = << >>
  /\ popped_this_iteration = 0
  /\ acquired_buffers = 0

(***************************************************************************)
(* StdQueue and FixedSizeBlockingQueue on their own.  Every method body    *)
(* runs under the queue's mutex; a thread that finds its wait predicate    *)
(* false blocks on the condition variable ("waiting"), a notification or a *)
(* spurious wake-up makes it take the mutex again and re-check ("woken").  *)
(* The notification a method sends after it released the mutex is a step   *)
(* of its own ("notify").                                                  *)
(***************************************************************************)
IsStd == q_kind = "StdQueue"

\* size()
Size == IF IsStd THEN Len(std_queue_) ELSE count_

Stopped == IF IsStd THEN std_stop_ ELSE stopped_

\* The queued elements, oldest first.
Contents ==
  IF IsStd THEN std_queue_
  ELSE [i \in 1..count_ |-> buffer_[(head_ + i - 1) % capacity_]]

Advance(i) == (i + 1) % capacity_

\* Mutation of InsertSlot: the element is stored where the oldest one is.
InsertSlotHead == head_

\* push: the slot the element is stored in.
InsertSlot == tail_

\* Mutation of PushPredicate: a full queue still admits one more element.
PushPredicateOffByOne == IsStd \/ count_ <= capacity_ \/ stopped_

\* push: the predicate of cv_not_full_.wait (StdQueue::push never waits).
PushPredicate == IsStd \/ count_ < capacity_ \/ stopped_

\* Mutation of PushRefused: push does not look at the stop flag.
PushRefusedNever == FALSE

\* push: "if (stop_) return;".
PushRefused == Stopped

\* pop: the predicate of the wait.
PopPredicate == Size > 0 \/ Stopped

\* Mutation of PopAbsent: a stopped queue yields nothing more.
PopAbsentWhenStopped == Stopped

\* pop after the wait: "if (queue_.empty()) return {};" in StdQueue,
\* "if (stopped_ && count_ == 0) return std::nullopt;" in the bounded queue.
PopAbsent == IF IsStd THEN std_queue_ = << >> ELSE stopped_ /\ count_ = 0

\* Mutation of Front: the newest element is handed out.
FrontNewest ==
  IF IsStd THEN std_queue_[Len(std_queue_)]
  ELSE buffer_[(head_ + count_ - 1) % capacity_]

\* queue_.front() / buffer_[head_]
Front == IF IsStd THEN Head(std_queue_) ELSE buffer_[head_]

\* A moved-from element.
MovedFrom == 0

Insert(v) ==
  IF IsStd
  THEN /\ std_queue_' = Append(std_queue_, v)
       /\ UNCHANGED << buffer_, head_, tail_, count_ >>
  ELSE /\ buffer_' = [buffer_ EXCEPT ![InsertSlot] = v]
       /\ tail_' = Advance(tail_)
       /\ count_' = count_ + 1
       /\ UNCHANGED << std_queue_, head_ >>

Remove ==
  IF IsStd
  THEN /\ std_queue_' = Tail(std_queue_)
       /\ UNCHANGED << buffer_, head_, tail_, count_ >>
  ELSE /\ buffer_' = [buffer_ EXCEPT ![head_] = MovedFrom]
       /\ head_' = Advance(head_)
       /\ count_' = count_ - 1
       /\ UNCHANGED << std_queue_, tail_ >>

queueFields == << std_queue_, buffer_, head_, tail_, count_ >>

\* notify_one(): one of the threads blocked on the condition variable, if
\* there is one, is woken.
WakeOne(pc) ==
  IF \A t \in DOMAIN pc : pc[t] # "waiting" THEN { pc }
  ELSE { [pc EXCEPT ![t] = "woken"] : t \in { u \in DOMAIN pc : pc[u] = "waiting" } }

\* Mutation of WakeAll: nobody is woken.
WakeNone(pc) == pc

\* notify_all(): every thread blocked on the condition variable is woken.
WakeAll(pc) ==
  [t \in DOMAIN pc |-> IF pc[t] = "waiting" THEN "woken" ELSE pc[t]]

QueueInit(kinds, capacities) ==
  /\ q_kind \in kinds
  /\ capacity_ \in capacities
  /\ std_queue_ = << >>
  /\ std_stop_ = FALSE
  /\ buffer_ = [i \in 0..(capacity_ - 1) |-> MovedFrom]
  /\ head_ = 0
  /\ tail_ = 0
  /\ count_ = 0
  /\ stopped_ = FALSE
  /\ push_pc = [p \in Pushers |-> "idle"]
  /\ pop_pc = [c \in Poppers |-> "idle"]
  /\ shut_pc = "idle"
  /\ push_calls = 0
  /\ pushes = 0
  /\ popped = << >>
  /\ shutdown_calls = 0
  /\ pops_after_stop = 0
  /\ unblocked_pushes = 0

\* push once the wait is over: return if stopped, else store the element
\* and go on to notify a popper.
PushBody(p) ==
  IF PushRefused
  THEN /\ push_pc' = [push_pc EXCEPT ![p] = "idle"]
       /\ UNCHANGED << queueFields, pushes >>
  ELSE /\ Insert(pushes + 1)
       /\ pushes' = pushes + 1
       /\ push_pc' = [push_pc EXCEPT ![p] = "notify"]

\* push from the lock to the end of the wait: blocked, or through.
PushEnter(p) ==
  IF PushPredicate
  THEN PushBody(p)
  ELSE /\ push_pc' = [push_pc EXCEPT ![p] = "waiting"]
       /\ UNCHANGED << queueFields, pushes >>

\* A thread calls push(element).
PushCall(p) ==
  /\ push_pc[p] = "idle"
  /\ push_calls < MaxPushCalls
  /\ push_calls' = push_calls + 1
  /\ PushEnter(p)
  /\ UNCHANGED << loggerVars, poolVars, fileVars, factoryVars, pops_after_stop, unblocked_pushes, q_kind, capacity_, std_stop_, stopped_, pop_pc,
                  shut_pc, popped, shutdown_calls >>

\* A woken pusher has the mutex again and re-checks the predicate.
PushRecheck(p) ==
  /\ push_pc[p] = "woken"
  /\ PushEnter(p)
  /\ unblocked_pushes' = IF pushes' > pushes THEN unblocked_pushes + 1
                         ELSE unblocked_pushes
  /\ UNCHANGED << loggerVars, poolVars, fileVars, factoryVars, pops_after_stop, q_kind, capacity_, std_stop_, stopped_, pop_pc,
                  shut_pc, push_calls, popped, shutdown_calls >>

\* The end of push: cv_.notify_one() / cv_not_empty_.notify_one().
PushNotify(p) ==
  /\ push_pc[p] = "notify"
  /\ push_pc' = [push_pc EXCEPT ![p] = "idle"]
  /\ pop_pc' \in WakeOne(pop_pc)
  /\ UNCHANGED << loggerVars, poolVars, fileVars, factoryVars, pops_after_stop, unblocked_pushes, q_kind, capacity_, std_stop_, stopped_,
                  queueFields, shut_pc, push_calls, pushes, popped,
                  shutdown_calls >>

\* pop once the wait is over: absent, or the front element.  The bounded
\* queue goes on to notify a pusher.
PopBody(c) ==
  IF PopAbsent
  THEN /\ pop_pc' = [pop_pc EXCEPT ![c] = "idle"]
       /\ UNCHANGED << queueFields, popped, pops_after_stop >>
  ELSE /\ popped' = Append(popped, Front)
       /\ pops_after_stop' = IF Stopped THEN pops_after_stop + 1
                             ELSE pops_after_stop
       /\ Remove
       /\ pop_pc' = [pop_pc EXCEPT ![c] = IF IsStd THEN "idle" ELSE "notify"]

PopEnter(c) ==
  IF PopPredicate
  THEN PopBody(c)
  ELSE /\ pop_pc' = [pop_pc EXCEPT ![c] = "waiting"]
       /\ UNCHANGED << queueFields, popped, pops_after_stop >>

\* A thread calls pop().
PopCall(c) ==
  /\ pop_pc[c] = "idle"
  /\ PopEnter(c)
  /\ UNCHANGED << loggerVars, poolVars, fileVars, factoryVars, unblocked_pushes, q_kind, capacity_, std_stop_, stopped_, push_pc,
                  shut_pc, push_calls, pushes, shutdown_calls >>

\* A woken popper has the mutex again and re-checks the predicate.
PopRecheck(c) ==
  /\ pop_pc[c] = "woken"
  /\ PopEnter(c)
  /\ UNCHANGED << loggerVars, poolVars, fileVars, factoryVars, unblocked_pushes, q_kind, capacity_, std_stop_, stopped_, push_pc,
                  shut_pc, push_calls, pushes, shutdown_calls >>

\* The end of FixedSizeBlockingQueue::pop: cv_not_full_.notify_one().
PopNotify(c) ==
  /\ pop_pc[c] = "notify"
  /\ pop_pc' = [pop_pc EXCEPT ![c] = "idle"]
  /\ push_pc' \in WakeOne(push_pc)
  /\ UNCHANGED << loggerVars, poolVars, fileVars, factoryVars, pops_after_stop, unblocked_pushes, q_kind, capacity_, std_stop_, stopped_,
                  queueFields, shut_pc, push_calls, pushes, popped,
                  shutdown_calls >>

\* A thread calls tryPop(): nothing when empty, else the front element; the
\* bounded queue notifies a pusher before it releases the mutex.
TryPop(c) ==
  /\ pop_pc[c] = "idle"
  /\ IF Size = 0
     THEN UNCHANGED << queueFields, popped, push_pc >>
     ELSE /\ popped' = Append(popped, Front)
          /\ Remove
          /\ IF IsStd THEN UNCHANGED push_pc
             ELSE push_pc' \in WakeOne(push_pc)
  /\ UNCHANGED << loggerVars, poolVars, fileVars, factoryVars, pops_after_stop, unblocked_pushes, q_kind, capacity_, std_stop_, stopped_, pop_pc,
                  shut_pc, push_calls, pushes, shutdown_calls >>

\* A blocked thread wakes up without a notification.
SpuriousWake ==
  /\ \/ /\ \E p \in Pushers :
             /\ push_pc[p] = "waiting"
             /\ push_pc' = [push_pc EXCEPT ![p] = "woken"]
        /\ UNCHANGED pop_pc
     \/ /\ \E c \in Poppers :
             /\ pop_pc[c] = "waiting"
             /\ pop_pc' = [pop_pc EXCEPT ![c] = "woken"]
        /\ UNCHANGED push_pc
  /\ UNCHANGED << loggerVars, poolVars, fileVars, factoryVars, pops_after_stop, unblocked_pushes, q_kind, capacity_, std_stop_, stopped_,
                  queueFields, shut_pc, push_calls, pushes, popped,
                  shutdown_calls >>

\* shutdown(), under the mutex: the stop flag is set.
ShutdownSet ==
  /\ shut_pc = "idle"
  /\ shutdown_calls < MaxShutdownCalls
  /\ shutdown_calls' = shutdown_calls + 1
  /\ shut_pc' = "notify"
  /\ IF IsStd
     THEN std_stop_' = TRUE /\ UNCHANGED stopped_
     ELSE stopped_' = TRUE /\ UNCHANGED std_stop_
  /\ UNCHANGED << loggerVars, poolVars, fileVars, factoryVars, pops_after_stop, unblocked_pushes, q_kind, capacity_, queueFields, push_pc, pop_pc,
                  push_calls, pushes, popped >>

\* shutdown(), after the mutex: notify_all on the condition variable(s).
ShutdownNotify ==
  /\ shut_pc = "notify"
  /\ shut_pc' = "idle"
  /\ push_pc' = WakeAll(push_pc)
  /\ pop_pc' = WakeAll(pop_pc)
  /\ UNCHANGED << loggerVars, poolVars, fileVars, factoryVars, pops_after_stop, unblocked_pushes, q_kind, capacity_, std_stop_, stopped_,
                  queueFields, push_calls, pushes, popped, shutdown_calls >>

QueuePush == \E p \in Pushers : PushCall(p) \/ PushRecheck(p) \/ PushNotify(p)
QueuePop ==
  \E c \in Poppers : PopCall(c) \/ PopRecheck(c) \/ PopNotify(c) \/ TryPop(c)
QueueShutdown == ShutdownSet \/ ShutdownNotify

\* Pushers and poppers; nobody shuts the queue down.
NextQueue ==
  \/ QueuePush
  \/ QueuePop
  \/ SpuriousWake

\* ... and a thread calls shutdown(), more than once.
NextQueueShutdown ==
  \/ QueuePush
  \/ QueuePop
  \/ SpuriousWake
  \/ QueueShutdown

(***************************************************************************)
(* Memory::Buffer, Memory::Pool and Memory::BufferPool on their own.       *)
(***************************************************************************)
\* An empty unique_ptr<Buffer>.
Null == [null |-> TRUE, size |-> 0, capacity |-> 0]

\* Buffer::Buffer(cap)
Buffer(cap) == [null |-> FALSE, size |-> 0, capacity |-> cap]

\* Mutation of clear: the size is left as it is.
clearNothing(buffer) == buffer

\* Buffer::clear()
clear(buffer) == [buffer EXCEPT !.size = 0]

\* Pool::Pool(pool_sz, buf_sz); next_index has no initialiser there.
Pool(pool_sz, buf_sz, first_index) ==
  [ buffers |-> [i \in 0..(pool_sz - 1) |-> Buffer(buf_sz)],
    next_index |-> first_index,
    pool_size |-> pool_sz,
    buffer_size |-> buf_sz ]

\* The loop of Pool::tryAcquire from its k-th round on: the index it stops
\* at, or pool_size when every round found an empty slot.
RECURSIVE Probe(_, _)
Probe(pool, k) ==
  IF k = pool.pool_size THEN pool.pool_size
  ELSE LET idx == (pool.next_index + k) % pool.pool_size
       IN  IF ~pool.buffers[idx].null THEN k ELSE Probe(pool, k + 1)

\* Mutation of moveOut: the slot keeps its pointer.
copyOut(pool, idx) == pool

\* std::move(buffers[idx]): the slot is left empty.
moveOut(pool, idx) == [pool EXCEPT !.buffers[idx] = Null]

\* Pool::tryAcquire: the buffer handed out (cleared) or Null, and the pool
\* afterwards; next_index has advanced once per round (kept modulo pool_size).
tryAcquire(pool) ==
  LET k == Probe(pool, 0)
      idx == (pool.next_index + k) % pool.pool_size
  IN  IF k = pool.pool_size
      THEN [ buffer |-> Null, idx |-> idx, pool |-> pool ]
      ELSE [ buffer |-> clear(pool.buffers[idx]), idx |-> idx,
             pool |-> [moveOut(pool, idx) EXCEPT
                         !.next_index = (idx + 1) % pool.pool_size] ]

EmptySlots(pool) == { i \in DOMAIN pool.buffers : pool.buffers[i].null }

\* Mutation of tryRelease: the buffer is never taken back.
tryReleaseNever(pool, buffer) == [ released |-> FALSE, pool |-> pool ]

\* Pool::tryRelease: into the first empty slot, if the capacity fits and
\* there is one.
tryRelease(pool, buffer) ==
  IF buffer.capacity # pool.buffer_size \/ EmptySlots(pool) = {}
  THEN [ released |-> FALSE, pool |-> pool ]
  ELSE LET i == CHOOSE j \in EmptySlots(pool) :
                  \A m \in EmptySlots(pool) : j <= m
       IN  [ released |-> TRUE, pool |-> [pool EXCEPT !.buffers[i] = buffer] ]

\* BufferPool::createBuffer
createBuffer(size) == Buffer(size)

\* BufferPool::getAvailableBuffers, for one pool.
Available(pool) == Cardinality(DOMAIN pool.buffers \ EmptySlots(pool))

PoolInit(first_indexes) ==
  /\ \E i \in first_indexes :
       small_pool_ = Pool(SMALL_POOL_SIZE, SMALL_BUFFER_SIZE, i % SMALL_POOL_SIZE)
  /\ \E i \in first_indexes :
       medium_pool_ = Pool(MEDIUM_POOL_SIZE, MEDIUM_BUFFER_SIZE, i % MEDIUM_POOL_SIZE)
  /\ \E i \in first_indexes :
       large_pool_ = Pool(LARGE_POOL_SIZE, LARGE_BUFFER_SIZE, i % LARGE_POOL_SIZE)
  /\ held = EmptyBag
  /\ last_acquire = << >>
  /\ heap_fallback = FALSE

\* BufferPool::acquire(required_size): from the pool of the matching band,
\* and a new buffer of exactly required_size when that gave nothing.
Acquire(required_size) ==
  /\ BagCardinality(held) < MaxHeld
  /\ LET band == IF required_size <= SMALL_BUFFER_SIZE THEN "small"
                 ELSE IF required_size <= MEDIUM_BUFFER_SIZE THEN "medium"
                 ELSE IF required_size <= LARGE_BUFFER_SIZE THEN "large"
                 ELSE "none"
         pool == IF band = "small" THEN small_pool_
                 ELSE IF band = "medium" THEN medium_pool_
                 ELSE large_pool_
         got == IF band = "none" THEN [ buffer |-> Null, idx |-> 0, pool |-> pool ]
                ELSE tryAcquire(pool)
         buffer == IF got.buffer.null THEN createBuffer(required_size)
                   ELSE got.buffer
     IN  /\ small_pool_' = IF band = "small" THEN got.pool ELSE small_pool_
         /\ medium_pool_' = IF band = "medium" THEN got.pool ELSE medium_pool_
         /\ large_pool_' = IF band = "large" THEN got.pool ELSE large_pool_
         /\ held' = held (+) SetToBag({buffer.capacity})
         /\ heap_fallback' = (heap_fallback \/ got.buffer.null)
         /\ last_acquire' = << [required_size |-> required_size,
                                buffer |-> buffer,
                                pooled_size |-> IF got.buffer.null THEN 0
                                                ELSE pool.buffers[got.idx].size] >>
  /\ UNCHANGED << loggerVars, queueVars, fileVars, factoryVars >>

\* Mutation of release: every buffer goes to the small pool when that has
\* an empty slot, whatever its capacity.
releaseToSmall(buffer) ==
  [ small |-> IF buffer.null \/ EmptySlots(small_pool_) = {}
              THEN small_pool_
              ELSE [small_pool_ EXCEPT
                      !.buffers[CHOOSE j \in EmptySlots(small_pool_) : TRUE] = buffer],
    medium |-> medium_pool_,
    large |-> large_pool_ ]

\* BufferPool::release(buffer): the three pools afterwards.  Nothing for an
\* empty pointer; else tryRelease on the pool whose buffer size the capacity
\* equals; a buffer no pool took is destroyed.
release(buffer) ==
  IF buffer.null
  THEN [ small |-> small_pool_, medium |-> medium_pool_, large |-> large_pool_ ]
  ELSE [ small |-> IF buffer.capacity = SMALL_BUFFER_SIZE
                   THEN tryRelease(small_pool_, buffer).pool
                   ELSE small_pool_,
         medium |-> IF buffer.capacity # SMALL_BUFFER_SIZE
                       /\ buffer.capacity = MEDIUM_BUFFER_SIZE
                    THEN tryRelease(medium_pool_, buffer).pool
                    ELSE medium_pool_,
         large |-> IF buffer.capacity \notin {SMALL_BUFFER_SIZE, MEDIUM_BUFFER_SIZE}
                      /\ buffer.capacity = LARGE_BUFFER_SIZE
                   THEN tryRelease(large_pool_, buffer).pool
                   ELSE large_pool_ ]

\* A caller releases a held buffer of capacity `cap` that it filled up to
\* `size` bytes.
Release(cap, size) ==
  /\ BagIn(cap, held)
  /\ size <= cap
  /\ LET after == release([null |-> FALSE, size |-> size, capacity |-> cap])
     IN  /\ small_pool_' = after.small
         /\ medium_pool_' = after.medium
         /\ large_pool_' = after.large
  /\ held' = held (-) SetToBag({cap})
  /\ last_acquire' = << >>
  /\ UNCHANGED << loggerVars, queueVars, fileVars, factoryVars, heap_fallback >>

\* A caller releases an empty pointer.
ReleaseNull ==
  /\ LET after == release(Null)
     IN  /\ small_pool_' = after.small
         /\ medium_pool_' = after.medium
         /\ large_pool_' = after.large
  /\ last_acquire' = << >>
  /\ UNCHANGED << loggerVars, queueVars, fileVars, factoryVars, held, heap_fallback >>

NextPool ==
  \/ \E n \in RequiredSizes : Acquire(n)
  \/ \E cap \in BagToSet(held) : \E size \in UsedSizes : Release(cap, size)
  \/ ReleaseNull

(***************************************************************************)
(* FileRotater on its own, as FileRotaterTest drives it: instances are     *)
(* constructed, files are created, sizes are reported, rotate() is called. *)
(* A path is a sequence of characters; the files are a function from the   *)
(* paths that exist to their contents.                                     *)
(***************************************************************************)
\* std::to_string(counter)
Digits == << "0", "1", "2", "3", "4", "5", "6", "7", "8", "9" >>
RECURSIVE to_string(_)
to_string(n) ==
  IF n < 10 THEN << Digits[n + 1] >>
  ELSE to_string(n \div 10) \o << Digits[(n % 10) + 1] >>

\* filename.find_last_of('.'), as a position 1..Len, 0 for npos.
find_last_of_dot(filename) ==
  LET dots == { i \in 1..Len(filename) : filename[i] = "." }
  IN  IF dots = {} THEN 0 ELSE CHOOSE i \in dots : \A j \in dots : j <= i

\* FileRotater::extractBaseAndExtension
extractBaseAndExtension(filename) ==
  LET dot_pos == find_last_of_dot(filename)
  IN  IF dot_pos # 0 /\ dot_pos - 1 > 0
      THEN [ base_name_ |-> SubSeq(filename, 1, dot_pos - 1),
             extension_ |-> SubSeq(filename, dot_pos, Len(filename)) ]
      ELSE [ base_name_ |-> filename, extension_ |-> << >> ]

\* FileRotater::FileRotater(filename, max_size_bytes)
FileRotater(filename, max_size_bytes) ==
  [ max_size_bytes_ |-> max_size_bytes,
    current_size_ |-> 0,
    base_name_ |-> extractBaseAndExtension(filename).base_name_,
    extension_ |-> extractBaseAndExtension(filename).extension_,
    filename |-> filename ]

\* std::filesystem::exists
exists(path) == path \in DOMAIN files

\* std::filesystem::rename(from, to)
rename(from, to) ==
  [ p \in (DOMAIN files \ {from}) \cup {to} |->
      IF p = to THEN files[from] ELSE files[p] ]

\* base_name_ + std::to_string(counter) + extension_
RotatedName(r, counter) == r.base_name_ \o to_string(counter) \o r.extension_

\* FileRotater::getNextRotatedName: the first counter from 1 whose name does
\* not exist.
getNextRotatedName(r) ==
  LET free == { k \in 1..(Cardinality(DOMAIN files) + 1) :
                  ~exists(RotatedName(r, k)) }
  IN  RotatedName(r, CHOOSE k \in free : \A m \in free : k <= m)

\* FileRotater::shouldRotate
RotaterShouldRotate(r) == r.current_size_ >= r.max_size_bytes_

\* FileRotater::getCurrentFilename: the static is initialised by the first
\* call, from the instance that makes it, and returned by every call.
getCurrentFilename(r) ==
  IF current_filename = << >> THEN r.base_name_ \o r.extension_
  ELSE current_filename[1]

FileInit ==
  /\ rotaters = << >>
  /\ files = << >>
  /\ current_filename = << >>
  /\ last_call = << >>

\* A test constructs a FileRotater.
RotaterConstruct(filename, max_size_bytes) ==
  /\ Len(rotaters) < MaxRotaters
  /\ rotaters' = Append(rotaters, FileRotater(filename, max_size_bytes))
  /\ last_call' = << >>
  /\ UNCHANGED << loggerVars, queueVars, poolVars, factoryVars, files, current_filename >>

\* FileRotaterTest::createFile(path, content)
CreateFile(path, content) ==
  /\ Cardinality(DOMAIN files \cup {path}) <= MaxFiles
  /\ files' = [ p \in DOMAIN files \cup {path} |->
                  IF p = path THEN content ELSE files[p] ]
  /\ last_call' = << >>
  /\ UNCHANGED << loggerVars, queueVars, poolVars, factoryVars, rotaters, current_filename >>

\* FileRotater::updateCurrentSize(bytes_written)
RotaterUpdateCurrentSize(i, bytes_written) ==
  /\ rotaters[i].current_size_ + bytes_written <= MaxCurrentSize
  /\ rotaters' = [rotaters EXCEPT ![i].current_size_ = @ + bytes_written]
  /\ last_call' = << [ op |-> "updateCurrentSize", instance |-> i,
                       files |-> files, result |-> << >> ] >>
  /\ UNCHANGED << loggerVars, queueVars, poolVars, factoryVars, files, current_filename >>

\* A call of getCurrentFilename() by a test.
RotaterGetCurrentFilename(i) ==
  /\ current_filename' = << getCurrentFilename(rotaters[i]) >>
  /\ last_call' = << [ op |-> "getCurrentFilename", instance |-> i,
                       files |-> files,
                       result |-> getCurrentFilename(rotaters[i]) ] >>
  /\ UNCHANGED << loggerVars, queueVars, poolVars, factoryVars, rotaters, files >>

\* FileRotater::rotate
RotaterRotate(i) ==
  LET name == getCurrentFilename(rotaters[i])
  IN  /\ current_filename' = << name >>
      /\ files' = IF exists(name)
                  THEN rename(name, getNextRotatedName(rotaters[i]))
                  ELSE files
      /\ rotaters' = [rotaters EXCEPT ![i].current_size_ = 0]
      /\ last_call' = << [ op |-> "rotate", instance |-> i,
                           files |-> files, result |-> << >> ] >>
      /\ UNCHANGED << loggerVars, queueVars, poolVars, factoryVars >>

NextRotater ==
  \/ \E f \in Filenames : \E m \in MaxSizes : RotaterConstruct(f, m)
  \/ \E p \in CreatedPaths : \E c \in FileContents : CreateFile(p, c)
  \/ \E i \in DOMAIN rotaters : \E n \in BytesWritten :
       RotaterUpdateCurrentSize(i, n)
  \/ \E i \in DOMAIN rotaters : RotaterGetCurrentFilename(i)
  \/ \E i \in DOMAIN rotaters : RotaterRotate(i)

(***************************************************************************)
(* Logger::init / get / _reset (Logger::Factory), mergeWithDefault and the *)
(* constructor's validation, as LoggerConfigTest drives them.  A Config is *)
(* a record of its fields; 0, "" and "nullptr" are the unset values.  The  *)
(* installed logger is reduced to its merged config, its queue and its     *)
(* rotater's size counter.                                                 *)
(***************************************************************************)
uint16_t(n) == n % 65536

\* Logger::default_config_
default_config_ ==
  [ internal_error_handler |-> "default_error_handler",
    log_file_name |-> "output.log",
    max_log_size_bytes |-> 5 * 1024 * 1024,
    batch_size |-> 32,
    queue_depth |-> 512,
    small_buffer_pool_size |-> 512,
    medium_buffer_pool_size |-> 256,
    large_buffer_pool_size |-> 128,
    small_buffer_size |-> 1024,
    medium_buffer_size |-> 4096,
    large_buffer_size |-> 16384,
    shutdown_timeout_seconds |-> 3,
    _queue |-> "default",
    coalesce_size |-> 32 ]

\* The field-by-field part of mergeWithDefault.
MergedFields(user_config) ==
  [ internal_error_handler |->
      IF user_config.internal_error_handler = "nullptr"
      THEN default_config_.internal_error_handler
      ELSE user_config.internal_error_handler,
    log_file_name |->
      IF user_config.log_file_name = "" THEN default_config_.log_file_name
      ELSE user_config.log_file_name,
    max_log_size_bytes |->
      IF user_config.max_log_size_bytes = 0
      THEN default_config_.max_log_size_bytes
      ELSE user_config.max_log_size_bytes,
    batch_size |->
      IF user_config.batch_size = 0 THEN default_config_.batch_size
      ELSE user_config.batch_size,
    queue_depth |->
      IF user_config.queue_depth = 0 THEN default_config_.queue_depth
      ELSE user_config.queue_depth,
    small_buffer_pool_size |->
      IF user_config.small_buffer_pool_size = 0
      THEN default_config_.small_buffer_pool_size
      ELSE user_config.small_buffer_pool_size,
    medium_buffer_pool_size |->
      IF user_config.medium_buffer_pool_size = 0
      THEN default_config_.medium_buffer_pool_size
      ELSE user_config.medium_buffer_pool_size,
    large_buffer_pool_size |->
      IF user_config.large_buffer_pool_size = 0
      THEN default_config_.large_buffer_pool_size
      ELSE user_config.large_buffer_pool_size,
    small_buffer_size |->
      IF user_config.small_buffer_size = 0
      THEN default_config_.small_buffer_size
      ELSE user_config.small_buffer_size,
    medium_buffer_size |->
      IF user_config.medium_buffer_size = 0
      THEN default_config_.medium_buffer_size
      ELSE user_config.medium_buffer_size,
    large_buffer_size |->
      IF user_config.large_buffer_size = 0
      THEN default_config_.large_buffer_size
      ELSE user_config.large_buffer_size,
    shutdown_timeout_seconds |->
      IF user_config.shutdown_timeout_seconds = 0
      THEN default_config_.shutdown_timeout_seconds
      ELSE user_config.shutdown_timeout_seconds,
    _queue |->
      IF user_config._queue = "nullptr" THEN default_config_._queue
      ELSE user_config._queue,
    coalesce_size |->
      IF user_config.coalesce_size = 0 THEN default_config_.coalesce_size
      ELSE user_config.coalesce_size ]

\* Logger::mergeWithDefault: the fields, then the auto-scaling; the product
\* is stored in the uint16_t field.
mergeWithDefault(user_config) ==
  LET merged == MergedFields(user_config)
      user_specified_batch_size == user_config.batch_size # 0
      user_specified_queue_depth == user_config.queue_depth # 0
      user_specified_coalesce_size == user_config.coalesce_size # 0
  IN  [ merged EXCEPT
          !.queue_depth =
             IF user_specified_batch_size /\ ~user_specified_queue_depth
             THEN uint16_t(merged.batch_size * 16) ELSE @,
          !.coalesce_size =
             IF user_specified_batch_size /\ ~user_specified_coalesce_size
             THEN merged.batch_size ELSE @ ]

\* Logger::Logger, max_logs_per_iteration_ for a merged config (the square
\* root is exact or far from an integer for the depths and batch sizes used).
MaxLogsPerIteration(c) ==
  Min(c.queue_depth \div 2,
      Max(uint16_t(c.batch_size * 2),
          uint16_t(CHOOSE k \in 0..(c.batch_size + c.queue_depth) :
                     /\ k * k <= c.batch_size * c.queue_depth
                     /\ (k + 1) * (k + 1) > c.batch_size * c.queue_depth)))

\* IOUring::IOUring: io_uring_queue_init refuses 0 entries and more than
\* 32768.
RingInitOk(c) == c.queue_depth \in 1..32768

\* Mutation of MoreThanHalf: the boundary warns too.
AtLeastHalf(c) == c.batch_size >= c.queue_depth \div 2

\* The condition of the constructor's first warning.
MoreThanHalf(c) == c.batch_size > c.queue_depth \div 2

\* The body of Logger::Logger after the validation: the reportError calls, in
\* order.
ConstructorWarnings(c) ==
  (IF MoreThanHalf(c) THEN << "more than half of queue_depth" >> ELSE << >>)
  \o (IF c.queue_depth < c.batch_size * 8
      THEN << "less than 8x batch_size" >> ELSE << >>)
  \o (IF /\ c.coalesce_size > 0
         /\ \/ 2 * c.coalesce_size < c.batch_size   \* coalesce_ratio < 0.5
            \/ c.coalesce_size > 2 * c.batch_size   \* coalesce_ratio > 2.0
      THEN << "differs significantly from batch_size" >> ELSE << >>)
  \o (IF MaxLogsPerIteration(c) < c.batch_size * 2
      THEN << "less than 2x batch_size" >> ELSE << >>)

\* How `new Logger(config)` ends: the ring cannot be set up (runtime_error
\* from the member initialisers), the validation throws invalid_argument, or
\* the logger exists.
ConstructorOutcome(c) ==
  IF ~RingInitOk(c) THEN "runtime_error"
  ELSE IF c.batch_size > c.queue_depth THEN "invalid_argument"
  ELSE "ok"

NoLogger == [ installed |-> FALSE ]

ProcessStart ==
  /\ instance_ = NoLogger
  /\ default_queue_stop_ = FALSE
  /\ logger_errors_ = << >>
  /\ last_op = << >>
  /\ init_refused = FALSE


\* Whether the queue of default_config_ is stopped once the worker of a
\* logger with config c has ended: the worker lambda ends with
\* queue_->shutdown().  Every unset _queue is that one queue; a queue given
\* by the user is a new one per config.
WorkerEnds(c) == default_queue_stop_ \/ c._queue = "default"

\* Logger::Factory::init with no logger installed.  A constructor that throws in its body has started
\* the worker: unwinding joins it, and the worker shuts the queue down.
FactoryInit(user_config) ==
  LET c == mergeWithDefault(user_config)
      outcome == ConstructorOutcome(c)
  IN  /\ ~instance_.installed
      /\ instance_' = IF outcome = "ok"
                      THEN [ installed |-> TRUE, config_ |-> c,
                             user_config |-> user_config,
                             stop_ |-> (c._queue = "default"
                                        /\ default_queue_stop_),
                             current_size_ |-> 0, writes |-> 0 ]
                      ELSE instance_
      /\ default_queue_stop_' = IF outcome = "invalid_argument"
                                THEN WorkerEnds(c)
                                ELSE default_queue_stop_
      /\ logger_errors_' = IF outcome = "ok" THEN ConstructorWarnings(c)
                           ELSE << >>
      /\ last_op' = << [ op |-> "init", user_config |-> user_config,
                         outcome |-> outcome ] >>
      /\ init_refused' = (init_refused \/ outcome = "invalid_argument")
      /\ UNCHANGED << loggerVars, queueVars, poolVars, fileVars >>

\* Mutation of FactoryInitAgain: a later init replaces the installed logger
\* by one with the default configuration.
FactoryInitReplaces ==
  /\ instance_.installed
  /\ instance_' = [ instance_ EXCEPT !.config_ = default_config_ ]
  /\ last_op' = << [ op |-> "init", user_config |-> << >>, outcome |-> "ok" ] >>
  /\ UNCHANGED << default_queue_stop_, logger_errors_, init_refused >>
  /\ UNCHANGED << loggerVars, queueVars, poolVars, fileVars >>

\* Logger::Factory::init while a logger is installed: the config is not
\* looked at and nothing is constructed.
FactoryInitAgain ==
  /\ instance_.installed
  /\ last_op' = << [ op |-> "init", user_config |-> << >>,
                     outcome |-> "already initialized" ] >>
  /\ UNCHANGED << instance_, default_queue_stop_, logger_errors_, init_refused >>
  /\ UNCHANGED << loggerVars, queueVars, poolVars, fileVars >>

\* Logger::get
FactoryGet ==
  /\ last_op' = << [ op |-> "get", user_config |-> << >>,
                     outcome |-> IF instance_.installed THEN "ok"
                                 ELSE "not initialized" ] >>
  /\ UNCHANGED << instance_, default_queue_stop_, logger_errors_, init_refused >>
  /\ UNCHANGED << loggerVars, queueVars, poolVars, fileVars >>

\* Logger::_reset: the last reference goes, ~Logger runs and the worker ends.
FactoryReset ==
  /\ instance_' = NoLogger
  /\ default_queue_stop_' = IF instance_.installed
                            THEN WorkerEnds(instance_.config_)
                            ELSE default_queue_stop_
  /\ logger_errors_' = << >>
  /\ last_op' = << [ op |-> "_reset", user_config |-> << >>, outcome |-> "ok" ] >>
  /\ UNCHANGED init_refused
  /\ UNCHANGED << loggerVars, queueVars, poolVars, fileVars >>

\* One record goes through the installed logger: push (refused by a stopped
\* queue), pop, createWriteTask (rotation check, write, updateCurrentSize).
LogOne(len) ==
  /\ instance_.installed
  /\ instance_.writes < MaxWrites
  /\ LET accepted == ~instance_.stop_
         rotated == accepted
                    /\ instance_.current_size_ >= instance_.config_.max_log_size_bytes
     IN  /\ instance_' =
               [ instance_ EXCEPT
                   !.writes = @ + 1,
                   !.current_size_ = IF ~accepted THEN @
                                     ELSE IF rotated THEN len ELSE @ + len ]
         /\ last_op' = << [ op |-> "log", user_config |-> << >>,
                            outcome |-> IF ~accepted THEN "dropped"
                                        ELSE IF rotated THEN "rotated and written"
                                        ELSE "written" ] >>
  /\ UNCHANGED << default_queue_stop_, logger_errors_, init_refused >>
  /\ UNCHANGED << loggerVars, queueVars, poolVars, fileVars >>

NextFactory ==
  \/ \E u \in UserConfigs : FactoryInit(u)
  \/ FactoryInitAgain
  \/ FactoryGet
  \/ FactoryReset
  \/ \E len \in RecordLens : LogOne(len)

\* FileRotater instances in one process.
InitRotater ==
  /\ LoggerInit({ c \in Configs : c.queue_depth = 8 })
  /\ QueueInit({"StdQueue"}, {1})
  /\ PoolInit({0})
  /\ FileInit
  /\ ProcessStart

\* The process at start: no logger installed.
InitFactory ==
  /\ LoggerInit({ c \in Configs : c.queue_depth = 8 })
  /\ QueueInit({"StdQueue"}, {1})
  /\ PoolInit({0})
  /\ FileInit
  /\ ProcessStart

\* The logger after construction; the stand-alone queues, pool, rotaters and
\* factory are not used.
Init ==
  /\ LoggerInit(Configs)
  /\ QueueInit({"StdQueue"}, {1})
  /\ PoolInit({0})
  /\ FileInit
  /\ ProcessStart

\* A queue after construction, of either class.
InitQueue ==
  /\ LoggerInit({ c \in Configs : c.queue_depth = 8 })
  /\ \/ QueueInit({"StdQueue"}, {1})
     \/ QueueInit({"FixedSizeBlockingQueue"}, QueueCapacities)
  /\ PoolInit({0})
  /\ FileInit
  /\ ProcessStart

\* A buffer pool after construction.
InitPool ==
  /\ LoggerInit({ c \in Configs : c.queue_depth = 8 })
  /\ QueueInit({"StdQueue"}, {1})
  /\ PoolInit(0..(SMALL_POOL_SIZE - 1))
  /\ FileInit
  /\ ProcessStart

(***************************************************************************)
(* Producers: Logger::write -> StdQueue::push(T&&).                        *)
(***************************************************************************)
\* Under the queue's mutex: return if stop_, else take the next sequence
\* number and append.
Push(len, max) ==
  /\ global_sequence_counter < max
  /\ IF stop_
     THEN UNCHANGED << queue_, global_sequence_counter >>
     ELSE /\ global_sequence_counter' = global_sequence_counter + 1
          /\ queue_' = Append(queue_, [seq |-> global_sequence_counter + 1, len |-> len])
  /\ UNCHANGED << config_, bufferVars, componentVars, rotaterVars, stop_, stop_requested, worker_pc, request, dropped,
                  processed_this_iteration, pending_writes, active_tasks,
                  active_task_count_, staging, operational, file, historyVars,
                  flushVars, dtorVars >>

Producer == \E len \in RecordLens : Push(len, MaxRecords)

\* The producers of the runs in which the logger is destroyed.
ShutdownProducer == \E len \in RecordLens : Push(len, MaxShutdownRecords)

\* The producers of the runs in which two threads call flush().
FlushProducer == \E len \in RecordLens : Push(len, MaxFlushRecords)

(***************************************************************************)
(* The worker thread: Logger::eventLoop, then the worker lambda's          *)
(* queue_->shutdown().                                                     *)
(***************************************************************************)
\* Mutation of LoopContinues: outstanding tasks do not keep the loop alive.
LoopContinuesWithoutTasks ==
  ~stop_requested \/ queue_ # << >>

\* while (!st.stop_requested() || !queue_->empty() || !active_tasks.empty())
LoopContinues ==
  ~stop_requested \/ queue_ # << >> \/ active_tasks # << >>

\* Mutation of SkipRequest: the inner loop does not look at the ring.
SkipRequestNever == FALSE

\* Inner loop: "Don't process new requests if ring has failed".
SkipRequest == ~operational

\* The loop condition, then the check of the ring at the top of an iteration.
WorkerLoop ==
  /\ worker_pc = "loop"
  /\ IF ~LoopContinues
     THEN /\ worker_pc' = "shutdown_queue"
          /\ UNCHANGED << dropped, processed_this_iteration,
                          popped_this_iteration >>
     ELSE IF ~operational
     THEN /\ worker_pc' = "drain"
          /\ dropped' = 0
          /\ UNCHANGED << processed_this_iteration, popped_this_iteration >>
     ELSE /\ worker_pc' = "inner"
          /\ processed_this_iteration' = 0
          /\ popped_this_iteration' = 0
          /\ UNCHANGED dropped
  /\ UNCHANGED << config_, acquired_buffers, componentVars, rotaterVars, producerVars, stop_, stop_requested, request,
                  pending_writes, active_tasks, active_task_count_, staging,
                  operational, file, historyVars, flushVars, dtorVars >>

\* while (queue_->tryPop()) dropped++;  then the report and the break.
WorkerDrain ==
  /\ worker_pc = "drain"
  /\ IF queue_ # << >>
     THEN /\ queue_' = Tail(queue_)
          /\ dropped' = dropped + 1
          /\ UNCHANGED << worker_pc, drop_reports >>
     ELSE /\ drop_reports' = IF dropped > 0 THEN Append(drop_reports, dropped)
                             ELSE drop_reports
          /\ worker_pc' = "shutdown_queue"
          /\ UNCHANGED << queue_, dropped >>
  /\ UNCHANGED << config_, bufferVars, componentVars, rotaterVars, stop_, global_sequence_counter,
                  stop_requested, request, processed_this_iteration,
                  pending_writes, active_tasks, active_task_count_, staging,
                  operational, file, submitted, late_calls, io_failed,
                  skip_reports, flushVars, dtorVars >>

\* while (auto request = queue_->tryPop())
WorkerTryPop ==
  /\ worker_pc = "inner"
  /\ IF queue_ = << >>
     THEN /\ worker_pc' = "flush_staged"
          /\ UNCHANGED << queue_, request, popped_this_iteration >>
     ELSE /\ request' = Head(queue_)
          /\ queue_' = Tail(queue_)
          /\ popped_this_iteration' = popped_this_iteration + 1
          /\ worker_pc' = "process"
  /\ UNCHANGED << config_, acquired_buffers, componentVars, rotaterVars, stop_, global_sequence_counter,
                  stop_requested, dropped, processed_this_iteration,
                  pending_writes, active_tasks, active_task_count_, staging,
                  operational, file, historyVars, flushVars, dtorVars >>

\* The body of the inner loop for the popped request: the check of the ring,
\* prepareWrite, createWriteTask and the counters, the batch submit, the
\* per-iteration limit.
WorkerProcess ==
  /\ worker_pc = "process"
  /\ request' = NoRequest
  /\ IF SkipRequest
     THEN /\ worker_pc' = "flush_staged"
          /\ skip_reports' = skip_reports + 1
          /\ UNCHANGED << processed_this_iteration, pending_writes, active_tasks,
                          active_task_count_, staging, operational, submitted,
                          late_calls, rotaterVars, acquired_buffers >>
     ELSE LET prepared == prepareWrite(request)
              has_buffer == prepared.buffer # << >>
              open == IF has_buffer THEN ReopenIfNeeded(current_size_)
                      ELSE rotations
              tasks1 == IF has_buffer
                        THEN createWriteTask(active_tasks, prepared.buffer, open)
                        ELSE active_tasks
              pending1 == IF has_buffer THEN pending_writes + 1 ELSE pending_writes
              late1 == IF has_buffer THEN LateCall("prepare_write") ELSE late_calls
              do_submit == prepared.should_flush_batch
                           \/ pending1 >= config_.batch_size
              processed1 == processed_this_iteration + 1
          IN  /\ staging' = prepared.staging
              /\ UNCHANGED skip_reports
              /\ current_size_' = IF has_buffer THEN RotateIfNeeded(current_size_)
                                  ELSE current_size_
              /\ rotations' = open
              /\ active_file' = IF has_buffer THEN ReopenedLines(current_size_)
                                ELSE active_file
              /\ write_errors' = IF has_buffer /\ ~PrepareWriteOk(active_tasks)
                                 THEN write_errors + 1 ELSE write_errors
              /\ active_task_count_' = IF has_buffer THEN active_task_count_ + 1
                                       ELSE active_task_count_
              \* a coroutine whose write is refused releases its buffer at once
              /\ acquired_buffers' =
                   acquired_buffers + prepared.acquired
                   - (IF has_buffer /\ ~PrepareWriteOk(active_tasks)
                      THEN 1 ELSE 0)
              /\ processed_this_iteration' = processed1
              /\ worker_pc' = IF processed1 >= max_logs_per_iteration_
                              THEN "flush_staged" ELSE "inner"
              /\ IF do_submit
                 THEN \E out \in SubmitOutcomes(tasks1, open) :
                        /\ active_tasks' = out.tasks
                        /\ operational' = out.ok
                        /\ submitted' = IF out.ok
                                        THEN submitted \cup PreparedSeqs(tasks1)
                                        ELSE submitted
                        /\ late_calls' = IF operational THEN late1
                                         ELSE late1 \cup {"submit"}
                        /\ pending_writes' = 0
                 ELSE /\ active_tasks' = tasks1
                      /\ late_calls' = late1
                      /\ pending_writes' = pending1
                      /\ UNCHANGED << operational, submitted >>
  /\ UNCHANGED << config_, popped_this_iteration, componentVars, producerVars, stop_, stop_requested, dropped, file,
                  io_failed, drop_reports, flushVars, dtorVars >>

\* The body of the inner loop when createWriteTask throws (std::bad_alloc for
\* the coroutine frame or the list node): prepareWrite has run, the buffer is
\* destroyed with the argument, no task exists, and the catch clauses of the
\* inner loop go on with the next tryPop: processed_this_iteration++ and the
\* check of the per-iteration limit are skipped.
WorkerProcessThrows ==
  /\ worker_pc = "process"
  /\ ~SkipRequest
  /\ prepareWrite(request).buffer # << >>
  /\ request' = NoRequest
  /\ staging' = prepareWrite(request).staging
  /\ acquired_buffers' = acquired_buffers + prepareWrite(request).acquired
  /\ worker_pc' = "inner"
  /\ UNCHANGED << config_, popped_this_iteration, componentVars, rotaterVars,
                  producerVars, stop_, stop_requested, dropped,
                  processed_this_iteration, pending_writes, active_tasks,
                  active_task_count_, operational, file, historyVars,
                  flushVars, dtorVars >>

\* After the inner loop: "Flush any remaining data in preparer's staging
\* buffer" (flushStaged and, when it returns a buffer, createWriteTask and
\* the counters), then "Submit any remaining requests".
WorkerFlushStaged ==
  /\ worker_pc = "flush_staged"
  /\ worker_pc' = "completions"
  /\ LET flushed == staging # << >>
         open == IF flushed THEN ReopenIfNeeded(current_size_) ELSE rotations
         tasks1 == IF flushed THEN createWriteTask(active_tasks, staging, open)
                   ELSE active_tasks
         pending1 == IF flushed THEN pending_writes + 1 ELSE pending_writes
         late1 == IF flushed THEN LateCall("prepare_write") ELSE late_calls
     IN  /\ staging' = << >>
         /\ active_task_count_' = IF flushed THEN active_task_count_ + 1
                                  ELSE active_task_count_
         /\ acquired_buffers' =
              IF flushed /\ PrepareWriteOk(active_tasks)
              THEN acquired_buffers + 1 ELSE acquired_buffers
         /\ current_size_' = IF flushed THEN RotateIfNeeded(current_size_)
                             ELSE current_size_
         /\ rotations' = open
         /\ active_file' = IF flushed THEN ReopenedLines(current_size_)
                           ELSE active_file
         /\ write_errors' = IF flushed /\ ~PrepareWriteOk(active_tasks)
                            THEN write_errors + 1 ELSE write_errors
         /\ pending_writes' = 0
         /\ IF pending1 > 0
            THEN \E out \in SubmitOutcomes(tasks1, open) :
                   /\ active_tasks' = out.tasks
                   /\ operational' = out.ok
                   /\ submitted' = IF out.ok
                                   THEN submitted \cup PreparedSeqs(tasks1)
                                   ELSE submitted
                   /\ late_calls' = IF operational THEN late1
                                    ELSE late1 \cup {"submit"}
            ELSE /\ active_tasks' = tasks1
                 /\ late_calls' = late1
                 /\ UNCHANGED << operational, submitted >>
  /\ UNCHANGED << config_, popped_this_iteration, componentVars, producerVars, stop_, stop_requested, request,
                  dropped, processed_this_iteration, file, io_failed,
                  drop_reports, skip_reports, flushVars, dtorVars >>

\* ring_.processCompletions(): every ready completion resumes its coroutine,
\* which releases the buffer, handles the result and runs to its end.
Resume(tasks) ==
  [i \in 1..Len(tasks) |->
     IF tasks[i].st = "completed" THEN [tasks[i] EXCEPT !.st = "done"]
     ELSE tasks[i]]

\* active_tasks.remove_if(done): one fetch_sub per reaped task, and
\* flush_cv_.notify_one() by the fetch_sub that returned 1.
RECURSIVE RemoveDone(_)
RemoveDone(tasks) ==
  IF tasks = << >> THEN << >>
  ELSE IF Head(tasks).st = "done" THEN RemoveDone(Tail(tasks))
  ELSE << Head(tasks) >> \o RemoveDone(Tail(tasks))

Waiters == { c \in FlushCallers : flush_pc[c] = "waiting" }

\* notify_one: one waiting thread, if any, is woken and re-checks.
NotifyOne ==
  IF Waiters = {}
  THEN UNCHANGED flush_pc
  ELSE \E c \in Waiters : flush_pc' = [flush_pc EXCEPT ![c] = "locked"]

\* "Smart waiting strategy": waitForCompletion when the queue is empty and
\* writes are outstanding, a short sleep when idle, nothing after a stop.
WaitsForCompletion(tasks) ==
  ~stop_requested /\ queue_ = << >> /\ tasks # << >>

\* The end of an iteration: processCompletions, the reaping of the finished
\* tasks, the choice of how to wait.
WorkerProcessCompletions ==
  /\ worker_pc = "completions"
  /\ LET resumed == Resume(active_tasks)
         n == Cardinality(TasksIn(resumed, "done"))
         left == RemoveDone(resumed)
     IN  /\ active_tasks' = left
         /\ active_task_count_' = active_task_count_ - n
         /\ current_size_' = current_size_ + ResumedBytes(active_tasks)
         /\ acquired_buffers' = acquired_buffers
                                 - Cardinality(TasksIn(active_tasks, "completed"))
         /\ write_errors' = write_errors + ResumedReports(active_tasks)
         /\ UNCHANGED << rotations, active_file >>
         /\ IF n > 0 /\ active_task_count_ = n
            THEN NotifyOne
            ELSE UNCHANGED flush_pc
         /\ worker_pc' = IF WaitsForCompletion(left)
                         THEN "wait_for_completion" ELSE "loop"
  /\ UNCHANGED << config_, popped_this_iteration, componentVars, producerVars, stop_, stop_requested, request,
                  dropped, processed_this_iteration, pending_writes, staging,
                  operational, file, historyVars, flush_seen, dtorVars >>

\* waitForCompletion returns (a completion is ready, or the 100 us passed).
WorkerWaitReturn ==
  /\ worker_pc = "wait_for_completion"
  /\ worker_pc' = "loop"
  /\ UNCHANGED << config_, bufferVars, componentVars, rotaterVars, producerVars, stop_, stop_requested, request,
                  dropped, processed_this_iteration, pending_writes,
                  active_tasks, active_task_count_, staging, operational, file,
                  historyVars, flushVars, dtorVars >>

\* An exception escapes eventLoop (thrown outside the try blocks of the loop,
\* here by ring_.processCompletions()): the worker lambda catches it and goes
\* on to queue_->shutdown().
WorkerLoopThrows ==
  /\ worker_pc = "completions"
  /\ worker_pc' = "shutdown_queue"
  /\ UNCHANGED << config_, bufferVars, componentVars, rotaterVars, producerVars,
                  stop_, stop_requested, request, dropped,
                  processed_this_iteration, pending_writes, active_tasks,
                  active_task_count_, staging, operational, file, historyVars,
                  flushVars, dtorVars >>

\* Mutation of WorkerShutdownQueue: the worker ends without the shutdown.
WorkerEndsWithoutShutdown ==
  /\ worker_pc = "shutdown_queue"
  /\ worker_pc' = "exited"
  /\ UNCHANGED << config_, bufferVars, componentVars, rotaterVars, producerVars,
                  stop_, stop_requested, request, dropped,
                  processed_this_iteration, pending_writes, active_tasks,
                  active_task_count_, staging, operational, file, historyVars,
                  flushVars, dtorVars >>

\* The worker lambda after eventLoop returned: queue_->shutdown().
WorkerShutdownQueue ==
  /\ worker_pc = "shutdown_queue"
  /\ worker_pc' = "exited"
  /\ stop_' = TRUE
  /\ UNCHANGED << config_, bufferVars, componentVars, rotaterVars, producerVars, stop_requested, request, dropped,
                  processed_this_iteration, pending_writes, active_tasks,
                  active_task_count_, staging, operational, file, historyVars,
                  flushVars, dtorVars >>

Worker ==
  \/ WorkerLoop
  \/ WorkerDrain
  \/ WorkerTryPop
  \/ WorkerProcess
  \/ WorkerFlushStaged
  \/ WorkerProcessCompletions
  \/ WorkerWaitReturn
  \/ WorkerShutdownQueue

(***************************************************************************)
(* The kernel: the oldest submitted write completes.  On success its bytes *)
(* are appended to the file; on failure nothing is written.                *)
(***************************************************************************)
FirstSubmitted(tasks) ==
  CHOOSE i \in TasksIn(tasks, "submitted") :
    \A j \in TasksIn(tasks, "submitted") : i <= j

KernelComplete(res) ==
  /\ TasksIn(active_tasks, "submitted") # {}
  /\ LET i == FirstSubmitted(active_tasks)
     IN  /\ active_tasks' = [active_tasks EXCEPT ![i].st = "completed", ![i].res = res]
         /\ file' = IF res = "ok" THEN file \o active_tasks[i].buffer ELSE file
         /\ active_file' = IF res = "ok" /\ WrittenTo(active_tasks[i]) = rotations
                           THEN active_file \o LinesOf(active_tasks[i])
                           ELSE active_file
         /\ io_failed' = (io_failed \/ res = "error")
  /\ UNCHANGED << config_, bufferVars, componentVars, current_size_, write_errors, rotations, producerVars, stop_, stop_requested, worker_pc,
                  request, dropped, processed_this_iteration, pending_writes,
                  active_task_count_, staging, operational, submitted,
                  late_calls, drop_reports, skip_reports, flushVars, dtorVars >>

Kernel == \E res \in {"ok", "error"} : KernelComplete(res)

(***************************************************************************)
(* Logger::flush(): flush_cv_.wait(lock, predicate) under flush_mutex_.    *)
(* The worker changes the counter and notifies without holding that mutex, *)
(* so a notification may fall between a caller's check of the predicate    *)
(* and its blocking on the condition variable.                             *)
(***************************************************************************)
\* queue_->size() == 0 && active_task_count_.load() == 0
FlushPredicate == Len(queue_) = 0 /\ active_task_count_ = 0

\* A thread calls flush() on the live logger (each thread once in a run).
FlushBegin(c) ==
  /\ flush_pc[c] = "idle"
  /\ dtor_pc = "alive"
  /\ flush_pc' = [flush_pc EXCEPT ![c] = "locked"]
  /\ flush_seen' = [flush_seen EXCEPT ![c] = global_sequence_counter]
  /\ UNCHANGED << config_, bufferVars, componentVars, rotaterVars, producerVars, stop_, stop_requested, worker_pc,
                  request, dropped, processed_this_iteration, pending_writes,
                  active_tasks, active_task_count_, staging, operational, file,
                  historyVars, dtorVars >>

\* Holding the mutex, the caller evaluates the predicate: it returns, or it
\* is about to block.
FlushCheck(c) ==
  /\ flush_pc[c] = "locked"
  /\ flush_pc' = [flush_pc EXCEPT ![c] = IF FlushPredicate THEN "returned"
                                         ELSE "about_to_wait"]
  /\ UNCHANGED << config_, bufferVars, componentVars, rotaterVars, producerVars, stop_, stop_requested, worker_pc,
                  request, dropped, processed_this_iteration, pending_writes,
                  active_tasks, active_task_count_, staging, operational, file,
                  historyVars, flush_seen, dtorVars >>

\* The caller blocks on flush_cv_.
FlushBlock(c) ==
  /\ flush_pc[c] = "about_to_wait"
  /\ flush_pc' = [flush_pc EXCEPT ![c] = "waiting"]
  /\ UNCHANGED << config_, bufferVars, componentVars, rotaterVars, producerVars, stop_, stop_requested, worker_pc,
                  request, dropped, processed_this_iteration, pending_writes,
                  active_tasks, active_task_count_, staging, operational, file,
                  historyVars, flush_seen, dtorVars >>

\* A spurious wake-up, which std::condition_variable permits.
FlushSpuriousWake(c) ==
  /\ flush_pc[c] = "waiting"
  /\ flush_pc' = [flush_pc EXCEPT ![c] = "locked"]
  /\ UNCHANGED << config_, bufferVars, componentVars, rotaterVars, producerVars, stop_, stop_requested, worker_pc,
                  request, dropped, processed_this_iteration, pending_writes,
                  active_tasks, active_task_count_, staging, operational, file,
                  historyVars, flush_seen, dtorVars >>

Flusher(callers) ==
  \E c \in callers :
    \/ FlushBegin(c)
    \/ FlushCheck(c)
    \/ FlushBlock(c)
    \/ FlushSpuriousWake(c)

(***************************************************************************)
(* Logger::~Logger().                                                      *)
(***************************************************************************)
\* queue_->shutdown()
DtorShutdownQueue ==
  /\ dtor_pc = "alive"
  /\ dtor_pc' = "request_stop"
  /\ stop_' = TRUE
  /\ UNCHANGED << config_, bufferVars, componentVars, rotaterVars, producerVars, stop_requested, worker_pc, request,
                  dropped, processed_this_iteration, pending_writes,
                  active_tasks, active_task_count_, staging, operational, file,
                  historyVars, flushVars, timed_out >>

\* worker_.request_stop(), then std::async starts the thread that joins.
DtorRequestStop ==
  /\ dtor_pc = "request_stop"
  /\ dtor_pc' = "wait_for"
  /\ stop_requested' = TRUE
  /\ UNCHANGED << config_, bufferVars, componentVars, rotaterVars, producerVars, stop_, worker_pc, request, dropped,
                  processed_this_iteration, pending_writes, active_tasks,
                  active_task_count_, staging, operational, file, historyVars,
                  flushVars, timed_out >>

\* join_future.wait_for(timeout) returns ready: the worker was joined.
DtorWaitReady ==
  /\ dtor_pc = "wait_for"
  /\ worker_pc = "exited"
  /\ dtor_pc' = "join_future_dtor"
  /\ UNCHANGED << config_, bufferVars, componentVars, rotaterVars, producerVars, stop_, stop_requested, worker_pc,
                  request, dropped, processed_this_iteration, pending_writes,
                  active_tasks, active_task_count_, staging, operational, file,
                  historyVars, flushVars, timed_out >>

\* join_future.wait_for(timeout) returns timeout: shutdown_timeout_seconds
\* passed and the worker is still running; the error is reported.
DtorWaitTimeout ==
  /\ dtor_pc = "wait_for"
  /\ worker_pc # "exited"
  /\ dtor_pc' = "join_future_dtor"
  /\ timed_out' = TRUE
  /\ UNCHANGED << config_, bufferVars, componentVars, rotaterVars, producerVars, stop_, stop_requested, worker_pc,
                  request, dropped, processed_this_iteration, pending_writes,
                  active_tasks, active_task_count_, staging, operational, file,
                  historyVars, flushVars >>

\* The end of the destructor's scope destroys join_future.  The shared state
\* of a future obtained from std::async blocks in its destructor until the
\* asynchronous task, here worker_.join(), has finished.
DtorReturn ==
  /\ dtor_pc = "join_future_dtor"
  /\ worker_pc = "exited"
  /\ dtor_pc' = "returned"
  /\ UNCHANGED << config_, bufferVars, componentVars, rotaterVars, producerVars, stop_, stop_requested, worker_pc,
                  request, dropped, processed_this_iteration, pending_writes,
                  active_tasks, active_task_count_, staging, operational, file,
                  historyVars, flushVars, timed_out >>

Destructor ==
  \/ DtorShutdownQueue
  \/ DtorRequestStop
  \/ DtorWaitReady
  \/ DtorWaitTimeout
  \/ DtorReturn

(***************************************************************************)
(* Specifications.                                                         *)
(***************************************************************************)
NextPipeline ==
  \/ Producer
  \/ Worker
  \/ Kernel

NextShutdown ==
  \/ ShutdownProducer
  \/ Worker
  \/ Kernel
  \/ Destructor

NextFlush ==
  \/ FlushProducer
  \/ Worker
  \/ Kernel
  \/ Flusher(FlushCallers)

Next ==
  \/ Producer
  \/ Worker
  \/ Kernel
  \/ Flusher({"f1"})
  \/ Destructor

\* The worker thread keeps running and the kernel completes every write it
\* was handed.
PipelineFairness ==
  /\ WF_vars(Worker)
  /\ WF_vars(Kernel)

\* In addition a flush() caller that can take its next step takes it.
\* Producers may stop pushing, and no spurious wake-up is ever due.
FlushFairness ==
  /\ PipelineFairness
  /\ \A c \in FlushCallers : WF_vars(FlushCheck(c) \/ FlushBlock(c))

\* The pipeline with the smallest valid configurations, exceptions in the
\* event loop, and the owner destroying the logger at some point.
InitIteration ==
  /\ LoggerInit(IterationConfigs)
  /\ QueueInit({"StdQueue"}, {1})
  /\ PoolInit({0})
  /\ FileInit
  /\ ProcessStart

NextIteration ==
  \/ NextPipeline
  \/ WorkerProcessThrows
  \/ WorkerLoopThrows
  \/ Destructor

SpecIteration == InitIteration /\ [][NextIteration]_vars

\* Producers, worker and kernel: nobody calls flush() or destroys the logger.
SpecPipeline == Init /\ [][NextPipeline]_vars /\ PipelineFairness

\* ... and the owner destroys the logger at some point.
SpecShutdown == Init /\ [][NextShutdown]_vars /\ PipelineFairness

\* ... and two threads call flush().
SpecFlush == Init /\ [][NextFlush]_vars /\ FlushFairness

\* Everything together, with one flush() caller.
Spec == Init /\ [][Next]_vars

\* A queue used by pushing and popping threads.
SpecQueue == InitQueue /\ [][NextQueue]_vars

\* ... and shut down.
SpecQueueShutdown == InitQueue /\ [][NextQueueShutdown]_vars

\* Every thread inside a queue method that can go on does so, and the
\* consumers keep popping: whenever a pop or tryPop would take an element,
\* one is made.
QueueFairness ==
  /\ \A p \in Pushers : WF_vars(PushRecheck(p) \/ PushNotify(p))
  /\ \A c \in Poppers : WF_vars(PopRecheck(c) \/ PopNotify(c))
  /\ WF_vars(\E c \in Poppers : PopCall(c) \/ TryPop(c))

SpecQueueLive == InitQueue /\ [][NextQueue]_vars /\ QueueFairness

\* A buffer pool used by callers that acquire, fill and release buffers.
SpecPool == InitPool /\ [][NextPool]_vars

\* File rotaters constructed and used by one thread.
SpecRotater == InitRotater /\ [][NextRotater]_vars

\* A process that initialises, uses and resets the logger.
SpecFactory == InitFactory /\ [][NextFactory]_vars

(***************************************************************************)
(* Properties.                                                             *)
(***************************************************************************)
\* The sequence numbers 1..n are all among the lines of the file.
Written(n) == \A s \in 1..n : s \in SeqsOf(file)

\* The ring is operational and no write came back with a negative result.
Healthy == operational /\ ~io_failed

\* C1: when flush() has returned, every record whose push took effect before
\* that call began is in the file (on a healthy logger).
C1_FlushReturnsAfterPriorWrites ==
  \A c \in FlushCallers :
    (flush_pc[c] = "returned" /\ Healthy) => Written(flush_seen[c])

\* C2: after flush() returned with all N pushes made before it began, the
\* file holds exactly N lines, one for each pushed record (healthy logger).
C2_ExactlyNLinesAfterFlush ==
  \A c \in FlushCallers :
    ( /\ flush_pc[c] = "returned"
      /\ flush_seen[c] = global_sequence_counter
      /\ Healthy )
    => /\ Len(file) = global_sequence_counter
       /\ SeqsOf(file) = 1..global_sequence_counter

\* C3: the lines of the file are in push order without gaps: the i-th line
\* carries sequence number i (healthy logger).
C3_LineCarriesItsIndex ==
  Healthy => \A i \in 1..Len(file) : file[i].seq = i

\* C4: when the worker has exited after the destructor shut the queue down
\* and the ring stayed operational, every record whose push took effect is
\* in the file.
C4_QueuedRecordsWrittenBeforeExit ==
  (worker_pc = "exited" /\ dtor_pc # "alive" /\ Healthy)
  => Written(global_sequence_counter)

\* C5: every call of flush() eventually returns while the ring is
\* operational, whatever the number of callers and wherever the worker's
\* notification falls.
C5_FlushEventuallyReturns ==
  \A c \in FlushCallers :
    (flush_pc[c] = "locked") ~> (flush_pc[c] = "returned" \/ ~operational)

\* Fewer records are ever pushed than batch_size and than coalesce_size.
SmallTotal ==
  MaxRecords < config_.batch_size /\ MaxRecords < config_.coalesce_size

\* C6: with fewer records than batch_size and coalesce_size, and neither
\* flush() nor shutdown, every pushed record is eventually in the file
\* (healthy logger).
C6_SmallBatchEventuallyWritten ==
  \A s \in 1..MaxRecords :
    (SmallTotal /\ global_sequence_counter >= s)
      ~> (s \in SeqsOf(file) \/ ~Healthy)

\* C7: the while condition ends the loop exactly when stop is requested, the
\* queue is empty and no task is outstanding; once stop is requested the
\* worker does exit; with zero records it never waits for a completion.
C7_WorkerLoopExit ==
  /\ [][ (worker_pc = "loop" /\ worker_pc' # "loop")
           => ( worker_pc' = "shutdown_queue"
                <=> (stop_requested /\ queue_ = << >> /\ active_tasks = << >>) )
       ]_vars
  /\ [](global_sequence_counter = 0 => worker_pc # "wait_for_completion")
  /\ (stop_requested ~> worker_pc = "exited")

\* C7 witness: the worker left the loop on a stop request after it had
\* written records.
C7_Witness ==
  /\ worker_pc = "exited"
  /\ stop_requested
  /\ operational
  /\ file # << >>

\* C8: after wait_for timed out the destructor returns without waiting for
\* the worker: its return is possible whatever the worker is doing.
C8_DestructorReturnsAfterTimeout ==
  (dtor_pc = "join_future_dtor" /\ timed_out) => ENABLED DtorReturn

\* Records whose push took effect and whose bytes were never submitted.
NeverSubmitted == (1..global_sequence_counter) \ submitted

\* C9: when the worker has exited on a failed ring, the one reported drop
\* count is the number of records never submitted, and the queue is empty.
C9_DropCountCoversUnsubmitted ==
  (worker_pc = "exited" /\ ~operational)
  => /\ queue_ = << >>
     /\ \/ NeverSubmitted = {} /\ drop_reports = << >>
        \/ drop_reports = << Cardinality(NeverSubmitted) >>

\* C10: no prepare_write and no submit is ever made on a ring that is not
\* operational.
C10_NoRingCallAfterFailure == late_calls = {}

\* C10 witness: the worker noticed the failure inside the inner loop and
\* went through the staged-bytes flush and the final submit.
C10_Witness ==
  /\ ~operational
  /\ skip_reports > 0
  /\ worker_pc = "loop"

\* Completions that processCompletions is about to hand to their coroutines.
CompletedTasks == TasksIn(active_tasks, "completed")
FailedTasks == { i \in CompletedTasks : active_tasks[i].res = "error" }

\* C11: a write that completed with a negative result is reported once and
\* leaves the rotater's byte count alone; its coroutine finishes and is
\* reaped; the worker stays in its loop, and (where no record can be lost to
\* coalescing) after a failure the worker still hands every record pushed so
\* far to the kernel, unless the ring itself fails.
C11_WriteErrorIsReportedAndSurvived ==
  /\ [][ (worker_pc = "completions" /\ worker_pc' # worker_pc /\ FailedTasks # {})
         => /\ write_errors' = write_errors + Cardinality(FailedTasks)
            /\ (FailedTasks = CompletedTasks => current_size_' = current_size_)
            /\ \A i \in 1..Len(active_tasks') :
                 active_tasks'[i].st \in {"prepared", "submitted"}
            /\ worker_pc' \in {"loop", "wait_for_completion"}
       ]_vars
  /\ []((io_failed /\ operational)
        => worker_pc \notin {"drain", "shutdown_queue", "exited"})
  /\ (io_failed /\ config_.coalesce_size = 1)
       ~> (~operational \/ (1..global_sequence_counter) \subseteq submitted)

\* C11 witness: a record's write failed and was consumed (reported, size
\* not counted), and a record pushed after it reached the file.
C11_Witness ==
  /\ operational
  /\ active_tasks = << >>
  /\ write_errors = 1
  /\ \E s \in SeqsOf(file) :
       \E t \in submitted : t < s /\ t \notin SeqsOf(file)
  /\ current_size_ = SumLen(file)

\* Writes handed to the ring whose completion no coroutine has consumed yet.
OutstandingWrites ==
  TasksIn(active_tasks, "prepared") \cup TasksIn(active_tasks, "submitted")
    \cup TasksIn(active_tasks, "completed")

\* C12: at every moment at most queue_depth writes are outstanding.
C12_AtMostDepthOutstanding ==
  Cardinality(OutstandingWrites) <= config_.queue_depth

\* The elements are numbered in the order their pushes took effect.
InPushOrder(seq, first) == \A i \in 1..Len(seq) : seq[i] = first + i - 1

\* C13: both queues hand the elements out in the order in which their
\* pushes took effect, whatever the pushing threads and whatever the
\* positions of head_ and tail_ in the bounded queue's array.
C13_PopsInPushOrder == InPushOrder(popped, 1)

\* C13 witness: the bounded queue has wrapped around (an element was stored
\* in the last slot and a later one in slot 0) while two threads pushed,
\* and all that was pushed has been popped.
C13_Witness ==
  /\ ~IsStd
  /\ pushes > capacity_
  /\ Len(popped) = pushes
  /\ push_calls = MaxPushCalls
  /\ \A p \in Pushers : push_pc[p] = "idle"

\* Pushers inside push that have not inserted yet.
BlockedPushers == { p \in Pushers : push_pc[p] \in {"waiting", "woken"} }

\* C14: without shutdown nothing is lost and nothing is duplicated: the
\* popped elements followed by the queued ones are exactly the pushed ones,
\* so pops + size = pushes, and every push call inserted or is still blocked.
C14_PopsPlusSizeEqualsPushes ==
  /\ Len(popped) + Size = pushes
  /\ InPushOrder(popped \o Contents, 1)
  /\ pushes + Cardinality(BlockedPushers) = push_calls

\* C14 witness: all push calls were made, some elements are popped, some
\* are still queued, in the bounded queue after a wrap-around.
C14_Witness ==
  /\ ~IsStd
  /\ pushes = MaxPushCalls
  /\ Len(popped) >= capacity_
  /\ Size >= 1

\* C15: once the queue is shut down no push inserts or blocks (it returns),
\* the size never grows, and the queued elements stay, in order, until a
\* pop takes the oldest one.
C15_NoInsertAfterShutdown ==
  [][ Stopped
      => /\ pushes' = pushes
         /\ Size' <= Size
         /\ \/ Contents' = Contents /\ popped' = popped
            \/ /\ Contents # << >>
               /\ Contents' = Tail(Contents)
               /\ popped' = Append(popped, Head(Contents))
         /\ \A p \in Pushers :
              /\ push_pc'[p] = "notify" => push_pc[p] = "notify"
              /\ push_pc'[p] = "waiting" => push_pc[p] = "waiting"
    ]_vars

\* C15 witness: after the shutdown a push call returned without inserting
\* while elements pushed before the shutdown are still queued.
C15_Witness ==
  /\ Stopped
  /\ shut_pc = "idle"
  /\ push_calls > pushes
  /\ \A p \in Pushers : push_pc[p] = "idle"
  /\ Size >= 1

\* C16: a pop() call (entering, or re-checking after a wake-up) blocks when
\* the queue is empty and not shut down, returns absent when it is empty and
\* shut down, and otherwise -- also after a shutdown -- returns the oldest
\* element; so it returns absent exactly when empty and shut down.
C16_PopBlocksOrReturns ==
  [][ \A c \in Poppers :
        (PopCall(c) \/ PopRecheck(c))
        => /\ (Size = 0 /\ ~Stopped)
                => (pop_pc'[c] = "waiting" /\ popped' = popped)
           /\ (Size = 0 /\ Stopped)
                => (pop_pc'[c] = "idle" /\ popped' = popped)
           /\ Size > 0
                => /\ popped' = Append(popped, Head(Contents))
                   /\ pop_pc'[c] \in {"idle", "notify"}
    ]_vars

\* C16 witness: after a shutdown pop() returned an element that was queued
\* before it; the queue is empty now and no popper is blocked.
C16_Witness ==
  /\ Stopped
  /\ pops_after_stop > 0
  /\ Size = 0
  /\ \A c \in Poppers : pop_pc[c] = "idle"

\* C17: the bounded queue never holds more than capacity_ elements: a push
\* that finds it full blocks without inserting; a free slot is taken by a
\* blocked pusher, and every blocked pusher is released in the end while
\* the consumers keep popping.
C17_BoundedPushBlocksAndIsReleased ==
  /\ [](~IsStd => (count_ <= capacity_ /\ Size = Len(Contents)))
  /\ [][ \A p \in Pushers :
           ((PushCall(p) \/ PushRecheck(p)) /\ ~IsStd /\ count_ = capacity_)
           => (push_pc'[p] = "waiting" /\ pushes' = pushes /\ count_' = count_)
       ]_vars
  /\ (~IsStd /\ count_ < capacity_ /\ BlockedPushers # {})
       ~> (count_ = capacity_ \/ BlockedPushers = {})
  /\ \A p \in Pushers :
       (push_pc[p] = "waiting") ~> (push_pc[p] \in {"notify", "idle"})

\* C17 witness: the queue is full again after a pusher that had blocked on
\* the full queue was released by a pop and inserted its element.
C17_Witness ==
  /\ ~IsStd
  /\ unblocked_pushes > 0
  /\ popped # << >>
  /\ count_ = capacity_

NobodyWaiting ==
  /\ \A p \in Pushers : push_pc[p] # "waiting"
  /\ \A c \in Poppers : pop_pc[c] # "waiting"

\* C18: a completed shutdown() leaves no thread blocked in push() or pop(),
\* and none blocks afterwards; a further shutdown() changes nothing in the
\* queue; a popper that re-checks an empty stopped queue returns absent and
\* a pusher that re-checks a stopped queue returns without inserting.
C18_ShutdownWakesAllWaiters ==
  /\ []((Stopped /\ shut_pc = "idle") => NobodyWaiting)
  /\ [][ (Stopped /\ (ShutdownSet \/ ShutdownNotify))
         => /\ Stopped'
            /\ UNCHANGED << queueFields, pushes, popped >>
            /\ NobodyWaiting'
       ]_vars
  /\ [][ \A c \in Poppers :
           (PopRecheck(c) /\ Stopped /\ Size = 0)
           => (pop_pc'[c] = "idle" /\ UNCHANGED << queueFields, popped >>)
       ]_vars
  /\ [][ \A p \in Pushers :
           (PushRecheck(p) /\ Stopped)
           => (push_pc'[p] = "idle" /\ UNCHANGED << queueFields, pushes >>)
       ]_vars

\* C18 witness: the bounded queue was full with both pushers blocked when
\* it was shut down; the shutdown has returned and both are awake.
C18_Witness ==
  /\ ~IsStd
  /\ Stopped
  /\ shut_pc = "idle"
  /\ count_ = capacity_
  /\ \A p \in Pushers : push_pc[p] = "woken"

\* C19: whatever was asked for and whatever the pools hold, acquire returns
\* a buffer (never an empty pointer) of capacity >= required_size and size 0.
C19_AcquireGivesEmptyBufferThatFits ==
  \A i \in 1..Len(last_acquire) :
    /\ ~last_acquire[i].buffer.null
    /\ last_acquire[i].buffer.capacity >= last_acquire[i].required_size
    /\ last_acquire[i].buffer.size = 0

\* C19 witness: an acquire was handed a pooled buffer that had been
\* released with a non-zero size, while another pool was exhausted.
C19_Witness ==
  /\ last_acquire # << >>
  /\ last_acquire[1].pooled_size > 0
  /\ Available(large_pool_) = 0

\* The buffer size of the band a required size falls into (0: no band).
BandSize(required_size) ==
  IF required_size <= SMALL_BUFFER_SIZE THEN SMALL_BUFFER_SIZE
  ELSE IF required_size <= MEDIUM_BUFFER_SIZE THEN MEDIUM_BUFFER_SIZE
  ELSE IF required_size <= LARGE_BUFFER_SIZE THEN LARGE_BUFFER_SIZE
  ELSE 0

\* C20: an acquire inside a band returns a buffer whose capacity is the
\* band's buffer size, also when the band's pool is exhausted.
C20_CapacityIsBandSize ==
  \A i \in 1..Len(last_acquire) :
    BandSize(last_acquire[i].required_size) # 0
    => last_acquire[i].buffer.capacity = BandSize(last_acquire[i].required_size)

\* getAvailableBuffers() and getTotalBuffers()
getAvailableBuffers ==
  Available(small_pool_) + Available(medium_pool_) + Available(large_pool_)
getTotalBuffers == SMALL_POOL_SIZE + MEDIUM_POOL_SIZE + LARGE_POOL_SIZE

\* C21: whenever every acquired buffer has been released, every pool is
\* full again: getAvailableBuffers() = getTotalBuffers(), also after
\* acquisitions that had to create their buffer.
C21_PoolsFullWhenAllReleased ==
  held = EmptyBag => getAvailableBuffers = getTotalBuffers

\* C21 witness: buffers were acquired, one of them created because its pool
\* was exhausted, and all have been released (one of them used).
C21_Witness ==
  /\ held = EmptyBag
  /\ heap_fallback
  /\ \E i \in DOMAIN large_pool_.buffers : large_pool_.buffers[i].size > 0

\* The buffers a caller can pass to release(): every capacity acquire() can
\* hand out, filled or not.
Releasable ==
  { [null |-> FALSE, size |-> size, capacity |-> cap] :
      size \in UsedSizes,
      cap \in {SMALL_BUFFER_SIZE, MEDIUM_BUFFER_SIZE, LARGE_BUFFER_SIZE}
              \cup RequiredSizes }

\* What release(b) may do to one pool: store b in one of its empty slots
\* when b's capacity is the pool's buffer size and it has an empty slot, and
\* nothing otherwise.
ReleasedInto(before, after, b) ==
  IF b.capacity = before.buffer_size /\ EmptySlots(before) # {}
  THEN \E i \in EmptySlots(before) :
         after = [before EXCEPT !.buffers[i] = b]
  ELSE after = before

\* C22: release(b) stores b only in the pool whose buffer size equals
\* b.capacity, and only when that pool has an empty slot; otherwise b is
\* destroyed and the pools are unchanged; release of an empty pointer changes
\* nothing; no pool ever holds more buffers than it has slots.
C22_ReleaseOnlyIntoMatchingPoolWithRoom ==
  /\ \A b \in Releasable :
       /\ ReleasedInto(small_pool_, release(b).small, b)
       /\ ReleasedInto(medium_pool_, release(b).medium, b)
       /\ ReleasedInto(large_pool_, release(b).large, b)
  /\ release(Null) =
       [ small |-> small_pool_, medium |-> medium_pool_, large |-> large_pool_ ]
  /\ Available(small_pool_) <= SMALL_POOL_SIZE
  /\ Available(medium_pool_) <= MEDIUM_POOL_SIZE
  /\ Available(large_pool_) <= LARGE_POOL_SIZE

\* C22 witness: a released buffer sits in the large pool, which is full,
\* while a caller holds another buffer of that capacity (created when the
\* pool was exhausted) and one no pool takes.
C22_Witness ==
  /\ EmptySlots(large_pool_) = {}
  /\ \E i \in DOMAIN large_pool_.buffers : large_pool_.buffers[i].size > 0
  /\ BagIn(LARGE_BUFFER_SIZE, held)
  /\ BagIn(512, held)

\* Two calls served one after the other by one pool, as its mutex orders
\* them: two acquisitions, and two releases.
AcquiredTwice(pool) ==
  LET first == tryAcquire(pool)
      second == tryAcquire(first.pool)
  IN  /\ ~first.buffer.null =>
           /\ first.pool.buffers[first.idx].null
           /\ Available(first.pool) = Available(pool) - 1
      /\ (~first.buffer.null /\ ~second.buffer.null) =>
           /\ second.idx # first.idx
           /\ Available(second.pool) = Available(pool) - 2
ReleasedTwice(pool) ==
  LET fits == { b \in Releasable : b.capacity = pool.buffer_size }
  IN  \A b1 \in fits : \A b2 \in fits :
        LET first == tryRelease(pool, b1)
            second == tryRelease(first.pool, b2)
        IN  /\ first.released = (EmptySlots(pool) # {})
            /\ Available(second.pool) =
                  Available(pool) + (IF first.released THEN 1 ELSE 0)
                                  + (IF second.released THEN 1 ELSE 0)

\* C23: a buffer has one holder at a time: an acquisition empties the slot
\* it takes its buffer from, so two acquisitions with no release between them
\* take from different slots, and two releases never store into the same
\* slot.
C23_OneHolderPerBuffer ==
  /\ AcquiredTwice(small_pool_) /\ ReleasedTwice(small_pool_)
  /\ AcquiredTwice(medium_pool_) /\ ReleasedTwice(medium_pool_)
  /\ AcquiredTwice(large_pool_) /\ ReleasedTwice(large_pool_)

\* C23 witness: two callers hold the two buffers of the small pool, taken
\* with no release between them, after a buffer went back to the medium pool.
C23_Witness ==
  /\ CopiesIn(SMALL_BUFFER_SIZE, held) = 2
  /\ EmptySlots(small_pool_) = DOMAIN small_pool_.buffers
  /\ last_acquire # << >>
  /\ \E i \in DOMAIN medium_pool_.buffers : medium_pool_.buffers[i].size > 0

\* What the directory must be after rotate() of instance r, given what it
\* was before: the instance's file moved to the first free rotated name and
\* every other file as it was, or nothing changed when the file did not
\* exist.
RotatedFrom(r, before) ==
  IF r.filename \in DOMAIN before
  THEN \E k \in 1..(Cardinality(DOMAIN before) + 1) :
         /\ RotatedName(r, k) \notin DOMAIN before
         /\ \A m \in 1..(k - 1) : RotatedName(r, m) \in DOMAIN before
         /\ DOMAIN files = (DOMAIN before \ {r.filename}) \cup {RotatedName(r, k)}
         /\ files[RotatedName(r, k)] = before[r.filename]
         /\ \A p \in DOMAIN before \ {r.filename} : files[p] = before[p]
  ELSE files = before

\* C24: after rotate() the instance's file, if it existed, has the first
\* free rotated name, every other file is untouched and the instance's path
\* does not exist; if it did not exist the directory is unchanged; the size
\* counter is 0, so shouldRotate() is false for a positive threshold.
C24_RotateRenamesToFirstFreeName ==
  \A c \in 1..Len(last_call) :
    last_call[c].op = "rotate" =>
      LET r == rotaters[last_call[c].instance]
      IN  /\ RotatedFrom(r, last_call[c].files)
          /\ r.current_size_ = 0
          /\ r.max_size_bytes_ > 0 => ~RotaterShouldRotate(r)

\* C25: getCurrentFilename() returns the path the instance was constructed
\* with, whatever was called before and whatever other instances exist.
C25_CurrentFilenameIsOwnPath ==
  \A c \in 1..Len(last_call) :
    last_call[c].op = "getCurrentFilename" =>
      last_call[c].result = rotaters[last_call[c].instance].filename

\* Writes that were created for a file other than the one open now and that
\* the kernel still owns.
InFlightAcrossRotation ==
  { i \in TasksIn(active_tasks, "submitted") : active_tasks[i].created < rotations }

\* C26: after K rotations the file that is open holds only lines of writes
\* created after the K-th rotation: a write prepared or submitted before a
\* rotation is written to the file it was created for, never to the file
\* opened after the rotation, and a write that succeeded is in a file.
C26_ActiveFileHoldsOnlyWritesCreatedForIt ==
  /\ \A i \in 1..Len(active_file) : active_file[i].created = rotations
  /\ \A i \in 1..Len(active_tasks) :
       /\ active_tasks[i].st \in {"submitted", "completed"}
          => WrittenTo(active_tasks[i]) = active_tasks[i].created
       /\ (active_tasks[i].st = "completed" /\ active_tasks[i].res = "ok")
          => SeqsOf(active_tasks[i].buffer) \subseteq SeqsOf(file)
  /\ SeqsOf(active_file) \subseteq SeqsOf(file)

\* C26 witness: the worker rotated while the kernel still owned a write, and
\* has submitted a write created after the rotation; the file written before
\* the rotation has lines.
C26_Witness ==
  /\ rotations > 0
  /\ InFlightAcrossRotation # {}
  /\ \E i \in TasksIn(active_tasks, "submitted") :
       active_tasks[i].created = rotations
  /\ file # << >>

\* The latest call, when it was an init that constructed or tried to.
LatestInits ==
  { k \in 1..Len(last_op) :
      last_op[k].op = "init" /\ last_op[k].outcome # "already initialized" }

\* A config with every field left unset.
AllUnset == UserConfig(OtherFieldsUnset, 0, 0, 0, "nullptr", 0)

\* What field f of the merge of user config u is to be.
ExpectedField(u, f) ==
  IF u[f] # AllUnset[f] THEN u[f]
  ELSE IF f = "queue_depth" /\ u.batch_size # 0 THEN 16 * u.batch_size
  ELSE IF f = "coalesce_size" /\ u.batch_size # 0 THEN u.batch_size
  ELSE default_config_[f]

\* C27: every field of the merged config is the user's value when that is
\* set and the default otherwise, except that with batch_size given an
\* unset queue_depth is 16 x batch_size and an unset coalesce_size is
\* batch_size, for every batch_size of the 16-bit field.
C27_MergeKeepsUserValuesAndScales ==
  \A k \in LatestInits :
    \A f \in DOMAIN default_config_ :
      mergeWithDefault(last_op[k].user_config)[f]
        = ExpectedField(last_op[k].user_config, f)

\* C28: an init whose merged config has batch_size > queue_depth fails with
\* invalid_argument and installs no logger, get() then fails as not
\* initialized, and the logger a later valid init installs works: it takes
\* the records logged.
C28_InvalidConfigRefusedAndRecoverable ==
  /\ \A k \in LatestInits :
       LET c == mergeWithDefault(last_op[k].user_config)
       IN  c.batch_size > c.queue_depth
           => last_op[k].outcome = "invalid_argument" /\ ~instance_.installed
  /\ \A k \in 1..Len(last_op) :
       /\ (last_op[k].op = "get" /\ ~instance_.installed)
          => last_op[k].outcome = "not initialized"
       /\ (last_op[k].op = "log" /\ init_refused /\ instance_.installed)
          => last_op[k].outcome # "dropped"

Count(messages, m) ==
  Cardinality({ i \in 1..Len(messages) : messages[i] = m })

\* C29: after a construction that succeeded, each of the three warnings was
\* reported once when its condition holds and not at all otherwise:
\* batch_size > queue_depth/2, queue_depth < 8 x batch_size, coalesce_size > 0
\* with coalesce_size/batch_size outside [0.5, 2.0]; so batch = depth/2 gives
\* no 'more than half' warning, depth = 8 x batch no 'less than 8x' warning,
\* and the config with every field unset gives no warning at all.
C29_WarningsOnceAndOnlyWhenDue ==
  \A k \in LatestInits :
    last_op[k].outcome = "ok" =>
      LET c == instance_.config_
      IN  /\ Count(logger_errors_, "more than half of queue_depth")
               = IF 2 * c.batch_size > c.queue_depth THEN 1 ELSE 0
          /\ Count(logger_errors_, "less than 8x batch_size")
               = IF c.queue_depth < 8 * c.batch_size THEN 1 ELSE 0
          /\ Count(logger_errors_, "differs significantly from batch_size")
               = IF c.coalesce_size > 0
                    /\ (2 * c.coalesce_size < c.batch_size
                        \/ c.coalesce_size > 2 * c.batch_size)
                 THEN 1 ELSE 0
          /\ last_op[k].user_config = AllUnset => logger_errors_ = << >>

\* C29 witness: a construction that reported the three warnings.
C29_Witness ==
  /\ LatestInits # {}
  /\ instance_.installed
  /\ Count(logger_errors_, "more than half of queue_depth") = 1
  /\ Count(logger_errors_, "less than 8x batch_size") = 1
  /\ Count(logger_errors_, "differs significantly from batch_size") = 1

\* C30: a logger initialised with max_log_size_bytes = 0 rotates before
\* every write.
C30_ZeroThresholdRotatesEveryWrite ==
  \A k \in 1..Len(last_op) :
    (/\ last_op[k].op = "log"
     /\ instance_.installed
     /\ instance_.user_config.max_log_size_bytes = 0
     /\ last_op[k].outcome # "dropped")
    => last_op[k].outcome = "rotated and written"

\* The call that has just been made.
Called(op) == Len(last_op') = 1 /\ last_op'[1].op = op

\* C31: an init call made while a logger is installed leaves the installed
\* instance and its configuration as they are, and a logger gets installed
\* only by an init that succeeds while none is installed; get() fails as not
\* initialized when no logger is installed (before any successful init, after
\* _reset()) and otherwise succeeds, leaving the instance as it is; _reset()
\* leaves no logger installed.
C31_InitOnlyInstallsOnce ==
  [][ /\ (Called("init") /\ instance_.installed) => instance_' = instance_
      /\ (~instance_.installed /\ instance_'.installed)
         => Called("init") /\ last_op'[1].outcome = "ok"
      /\ Called("get")
         => /\ instance_' = instance_
            /\ last_op'[1].outcome = IF instance_.installed THEN "ok"
                                     ELSE "not initialized"
      /\ Called("_reset") => ~instance_'.installed ]_vars

\* C31 witness: init was called while a logger was installed.
C31_Witness ==
  /\ instance_.installed
  /\ Len(last_op) = 1
  /\ last_op[1].op = "init"
  /\ last_op[1].outcome = "already initialized"
  /\ instance_.user_config # AllUnset

\* The records of a sequence of lines, in order.
RecordsOf(lines) ==
  [i \in 1..Len(lines) |-> [seq |-> lines[i].seq, len |-> lines[i].len]]

\* The records the worker could hand to the WritePreparer next.
NextRequests ==
  { [seq |-> global_sequence_counter + 1, len |-> len] : len \in RecordLens }

\* C32: whatever is staged, a prepareWrite call loses no record: the lines
\* of the buffer it returns followed by the lines that stay staged (which
\* flushStaged returns) are the lines staged before followed by the record of
\* the call, also when the record does not fit behind the staged lines.
C32_PreparerEmitsEveryRecord ==
  \A req \in NextRequests :
    RecordsOf(prepareWrite(req).buffer) \o RecordsOf(prepareWrite(req).staging)
      = RecordsOf(staging) \o << req >>

\* C33: every line the WritePreparer puts into a buffer is there with all the
\* bytes the buffer's size counts for it, for every staging offset o and
\* record length L with o + L <= StagingSize, o + L = StagingSize included.
C33_BufferSizeCountsWrittenBytes ==
  \A req \in NextRequests :
    /\ \A i \in 1..Len(prepareWrite(req).buffer) :
         prepareWrite(req).buffer[i].intact
    /\ \A i \in 1..Len(prepareWrite(req).staging) :
         prepareWrite(req).staging[i].intact
    /\ SumLen(prepareWrite(req).staging) <= StagingSize

\* C34: in one iteration of the event loop at most max_logs_per_iteration_
\* records are popped from the queue, for every valid configuration (also
\* when max_logs_per_iteration_ is 0) and also when handling a record throws.
C34_AtMostMaxLogsPoppedPerIteration ==
  popped_this_iteration <= max_logs_per_iteration_

\* C35: the outstanding-task counter is the number of continuations created
\* and not yet reaped and is never negative, a continuation that is done
\* holds the result it was resumed with, and every continuation gets resumed
\* and reaped: none is left when the event loop is over.
C35_EveryContinuationResumedAndReaped ==
  /\ active_task_count_ = Len(active_tasks)
  /\ active_task_count_ >= 0
  /\ \A i \in 1..Len(active_tasks) :
       active_tasks[i].st = "done" <=> active_tasks[i].res # "none"
                                       /\ active_tasks[i].st # "completed"
  /\ worker_pc = "exited" => active_tasks = << >> /\ active_task_count_ = 0

\* The bytes of the lines that are in the file open now.
ActiveFileBytes ==
  SumLen(SelectSeq(file, LAMBDA line : line.seq \in SeqsOf(active_file)))

\* The writes the kernel owns that go to the file open now, and the bytes
\* of those submitted before write i.
SubmittedToActiveFile ==
  { i \in TasksIn(active_tasks, "submitted") : WrittenTo(active_tasks[i]) = rotations }

RECURSIVE BytesOfTasks(_)
BytesOfTasks(is) ==
  IF is = {} THEN 0
  ELSE LET i == CHOOSE j \in is : TRUE
       IN  SumLen(active_tasks[i].buffer) + BytesOfTasks(is \ {i})

\* C36: once every completion has been handled, current_size_ is the number
\* of bytes written to the file open now (a write submitted before a
\* rotation adds nothing to the counter of the file opened by it), and a
\* write is submitted to the open file only while the bytes submitted to it
\* before are below max_log_size_bytes.
C36_CurrentSizeIsBytesOfActiveFile ==
  /\ TasksIn(active_tasks, "completed") = {} => current_size_ = ActiveFileBytes
  /\ \A i \in SubmittedToActiveFile :
       ActiveFileBytes
         + BytesOfTasks({ j \in SubmittedToActiveFile : j < i })
       < config_.max_log_size_bytes

\* The pipeline is idle: the queue is empty, the worker holds no record,
\* nothing is staged and no continuation is outstanding.
PipelineIdle ==
  /\ queue_ = << >>
  /\ request = NoRequest
  /\ staging = << >>
  /\ active_tasks = << >>
  /\ active_task_count_ = 0

\* C37: whenever the pipeline is idle every buffer acquired from the pool
\* has been released to it again (the pools hold as many buffers as they
\* have slots).
C37_IdlePipelineHoldsNoBuffer ==
  PipelineIdle => acquired_buffers = 0

\* C38: once the ring has failed and the worker has exited, every flush()
\* call that is under way returns eventually, whether it began before or
\* after the exit.
C38_FlushReturnsAfterRingFailure ==
  \A c \in FlushCallers :
    (~operational /\ worker_pc = "exited" /\ flush_pc[c] \in {"locked", "waiting"})
      ~> (flush_pc[c] = "returned")

\* C39: whenever the worker thread has exited (after a stop request, after
\* a ring failure, after an exception that escaped the event loop) the queue
\* has been shut down, and from then on no push inserts a record.
C39_QueueShutDownWhenWorkerExits ==
  [][ /\ worker_pc' = "exited" => stop_'
      /\ worker_pc = "exited"
         => /\ queue_' = queue_
            /\ global_sequence_counter' = global_sequence_counter ]_vars

\* C39 witness: the worker has exited because of an exception, on a working
\* ring and with no stop requested, while records can still be logged.
C39_Witness ==
  /\ worker_pc = "exited"
  /\ stop_
  /\ operational
  /\ dtor_pc = "alive"
  /\ global_sequence_counter < MaxRecords

\* C40: a logger constructed without a queue of the user's, after an earlier
\* logger on the default queue was destroyed or an earlier construction on
\* the default queue was refused, takes the records logged: none is dropped.
C40_LoggerOnDefaultQueueAcceptsRecords ==
  \A k \in 1..Len(last_op) :
    (/\ last_op[k].op = "log"
     /\ instance_.installed
     /\ instance_.user_config._queue = "nullptr")
    => last_op[k].outcome # "dropped"

=============================================================================
